---------------------------- MODULE Spec2Model ----------------------------
(***************************************************************************)
(* A model of searchspaces/partialplus.py: the PartialPlus expression      *)
(* graph, its builder (as_partialplus, partial, variable, operator sugar), *)
(* the traversal engine (_traversal_helper, depth_first_traversal,         *)
(* topological_sort), the memoized evaluator (_evaluate, _handle_indexing) *)
(* and the parameter binder (_param_assignment, _bind_parameters).         *)
(*                                                                         *)
(* Objects live in a heap: a node's identity is its index in `heap`.       *)
(* Python values are records tagged by `kind`; containers and objects made *)
(* by a call carry the `id` of the call that made them, so that two equal  *)
(* results of two calls are still two objects.                             *)
(***************************************************************************)
EXTENDS Integers, Sequences, FiniteSets, TLC

VARIABLES
    heap,      \* the Node objects built so far; heap[i] is the node with identity i
    handles,   \* the nodes the builder operations returned, in order
    given,     \* the Python value each of those operations was given
    nops,      \* number of builder operations performed
    pc,        \* "build", "traverse", "topo" or "done"
    op,        \* the API operation in progress or finished
    helper,    \* locals of _traversal_helper: visited, to_visit, path
    topo,      \* locals of topological_sort: candidates, dependencies, visited
    out,       \* the nodes yielded to the caller so far
    raised,    \* the exception that ended the operation, "none" if none
    env,       \* the keyword arguments passed to evaluate
    result     \* what evaluate or .arg returned, with the evaluator's call log

vars == <<heap, handles, given, nops, pc, op, helper, topo, out, raised, env, result>>

----------------------------------------------------------------------------
(* Bounds of the model *)

\* most nodes the heap holds
MaxNodes == 4
\* most builder operations in one behaviour
MaxOps == 4
\* most nodes the heap holds, and most builder operations, before evaluate
MaxHeap == 18
MaxEvalOps == 3
\* most elements of a container handed to as_partialplus
MaxLen == 2
\* most positional arguments of a call whose parameters are bound
MaxPos == 3
MaxCalls == 3

\* positional argument counts of a deferred call
ArgCounts == 0..2

----------------------------------------------------------------------------
(* Python values *)

IntV(n) == [kind |-> "int", n |-> n]
StrV(s) == [kind |-> "str", s |-> s]
NoneV == [kind |-> "None"]
BoolV(b) == [kind |-> "bool", b |-> b]
ClassV(s) == [kind |-> "class", s |-> s]
ListV(id, elems) == [kind |-> "list", id |-> id, elems |-> elems]
TupleV(id, elems) == [kind |-> "tuple", id |-> id, elems |-> elems]
DictV(id, cls, items) == [kind |-> "dict", id |-> id, cls |-> cls, items |-> items]
SliceV(start, stop, step) == [kind |-> "slice", start |-> start, stop |-> stop, step |-> step]
ObjV(id) == [kind |-> "obj", id |-> id]
\* an instance of a subclass of list or of tuple (base)
InstanceV(base, elems) == [kind |-> "instance", s |-> base, elems |-> elems]
\* a value that already is a Node object
NodeRef(i) == [kind |-> "node", ref |-> i]
\* a functools.partial object: func, args, keywords
PartialV(f, a, k) == [kind |-> "partial", pfunc |-> f, pargs |-> a, pkeywords |-> k]

\* the sentinel "no parent" of the traversal
NoParent == 0

----------------------------------------------------------------------------
(* Node objects *)

Literal(value) ==
    [kind |-> "Literal", value |-> value, func |-> "None", args |-> <<>>, keywords |-> <<>>]

PartialPlus(f, args, kwargs) ==
    [kind |-> "PartialPlus", value |-> NoneV, func |-> f, args |-> args, keywords |-> kwargs]

\* an object that is no Node, where a Node is expected
Object(value) ==
    [kind |-> "object", value |-> value, func |-> "None", args |-> <<>>, keywords |-> <<>>]

Nodes(h) == 1..Len(h)

is_literal(node) == node.kind = "Literal"
is_variable_node(node) == node.func = "variable_node"
is_choice_node(node) == node.func = "choice_node"
is_tuple_node(node) == node.func = "make_tuple"
is_list_node(node) == node.func = "make_list"
is_sequence_node(node) == is_tuple_node(node) \/ is_list_node(node)
is_pos_args_node(node) == node.func = "call_with_list_of_pos_args"

\* the values of a keywords dict, in iteration order
KwValues(kw) == [i \in 1..Len(kw) |-> kw[i].node]
KwNames(kw) == {kw[i].name : i \in 1..Len(kw)}
KwGet(kw, name) == (CHOOSE i \in 1..Len(kw) : kw[i].name = name)

\* Node.inputs(): positional arguments, then keyword values
inputs(node) ==
    IF node.kind = "PartialPlus" THEN node.args \o KwValues(node.keywords) ELSE <<>>

Range(s) == {s[i] : i \in 1..Len(s)}

Children(h, n) == Range(inputs(h[n]))

\* nodes reachable from n through positional and keyword children
RECURSIVE ReachFrom(_, _, _)
ReachFrom(h, frontier, seen) ==
    IF frontier \subseteq seen THEN seen
    ELSE ReachFrom(h, UNION {Children(h, n) : n \in frontier}, seen \cup frontier)

Reachable(h, n) == ReachFrom(h, {n}, {})

\* a directed cycle is reachable from root
HasCycle(h, root) ==
    \E n \in Reachable(h, root) :
        \E c \in Children(h, n) : n \in Reachable(h, c)

----------------------------------------------------------------------------
(* The builder *)

\* a variant whose new call node takes itself for a last argument
Alloc_under_itself(h, node) ==
    [heap |-> Append(h, IF node.kind = "PartialPlus"
                        THEN [node EXCEPT !.args = Append(@, Len(h) + 1)] ELSE node),
     node |-> Len(h) + 1]

\* a node is constructed: it is a new object, its children exist already
Alloc(h, node) == [heap |-> Append(h, node), node |-> Len(h) + 1]

\* list.sort(key=..., reverse=True) on boolean keys, keys[i] being the key of
\* s[i]: stable, True first
SortReverse(s, keys) ==
    LET order == SelectSeq([i \in 1..Len(s) |-> i], LAMBDA i : keys[i])
                    \o SelectSeq([i \in 1..Len(s) |-> i], LAMBDA i : ~keys[i])
    IN [j \in 1..Len(s) |-> s[order[j]]]

\* x[0] on a PartialPlus x is PartialPlus.__getitem__(x, 0): the new node
\* partial(operator.getitem, x, Literal(0)); `item` is the identity the new
\* Literal would get
getitem_record(self, item) ==
    PartialPlus("getitem", <<self, item>>, <<>>)

\* a test that takes an instance of a subclass of list for a list
isinstance(p) == IF p.kind = "instance" THEN p.s ELSE p.kind

\* type(p), for the test  type(p) in (list, tuple)
type(p) == p.kind

RECURSIVE as_partialplus(_, _)
RECURSIVE ConvertAll(_, _)

\* [as_partialplus(e) for e in s], threading the heap
ConvertAll(h, s) ==
    IF s = <<>> THEN [heap |-> h, nodes |-> <<>>]
    ELSE LET first == as_partialplus(h, Head(s))
             rest == ConvertAll(first.heap, Tail(s))
         IN [heap |-> rest.heap, nodes |-> <<first.node>> \o rest.nodes]

as_partialplus(h, p) ==
    CASE p.kind = "node" -> [heap |-> h, node |-> p.ref]
      [] p.kind = "partial" ->
            LET a == ConvertAll(h, p.pargs)
                k == ConvertAll(a.heap, [i \in 1..Len(p.pkeywords) |-> p.pkeywords[i].val])
                kwargs == [i \in 1..Len(p.pkeywords) |->
                              [name |-> p.pkeywords[i].name, node |-> k.nodes[i]]]
            IN Alloc(k.heap, PartialPlus(p.pfunc, a.nodes, kwargs))
      [] type(p) \in {"list", "tuple"} ->
            LET a == ConvertAll(h, p.elems)
                func == IF type(p) = "list" THEN "make_list" ELSE "make_tuple"
            IN Alloc(a.heap, PartialPlus(func, a.nodes, <<>>))
      [] p.kind = "dict" ->
            LET pairs == [i \in 1..Len(p.items) |->
                             TupleV(0, <<p.items[i].key, p.items[i].val>>)]
                a == ConvertAll(h, pairs)
                actual_args == SortReverse(a.nodes,
                                   [i \in 1..Len(a.nodes) |->
                                       is_literal(getitem_record(a.nodes[i], Len(a.heap) + 1))])
                cls == Alloc(a.heap, Literal(ClassV(p.cls)))
            IN Alloc(cls.heap, PartialPlus("call_with_list_of_pos_args",
                                           <<cls.node>> \o actual_args, <<>>))
      [] OTHER -> Alloc(h, Literal(p))

\* partial(f, *args, **kwargs)
partial(h, f, args, kwargs) == as_partialplus(h, PartialV(f, args, kwargs))


\* PartialPlus.__getitem__(item)
__getitem__(h, self, item) ==
    LET i == as_partialplus(h, item)
    IN partial(i.heap, "getitem", <<NodeRef(self), NodeRef(i.node)>>, <<>>)

\* variable(name, value_type, default=default): the keywords are locals(),
\* taken in the order of the signature, with kwargs = {} last
variable(h, name, value_type, default) ==
    partial(h, "variable_node", <<>>,
            <<[name |-> "name", val |-> name],
              [name |-> "value_type", val |-> value_type],
              [name |-> "minimum", val |-> NoneV],
              [name |-> "maximum", val |-> NoneV],
              [name |-> "default", val |-> default],
              [name |-> "log_scale", val |-> BoolV(FALSE)],
              [name |-> "distribution", val |-> NoneV],
              [name |-> "kwargs", val |-> DictV(0, "dict", <<>>)]>>)

\* choice(choice_var, *args): the alternatives are converted once for the
\* test and again under the mapping node; node is NoParent when it raises
choice(h, choice_var, args) ==
    LET new_args == ConvertAll(h, args)
    IN IF \E i \in 1..Len(args) :
              \/ ~is_tuple_node(new_args.heap[new_args.nodes[i]])
              \/ Len(new_args.heap[new_args.nodes[i]].args) # 2
       THEN [heap |-> new_args.heap, node |-> NoParent, err |-> "ValueError"]
       ELSE LET d == partial(new_args.heap, "call_with_list_of_pos_args",
                             <<ClassV("dict")>> \o args, <<>>)
                v == __getitem__(d.heap, d.node, choice_var)
                r == partial(v.heap, "choice_node", <<NodeRef(v.node)>>, <<>>)
            IN [heap |-> r.heap, node |-> r.node, err |-> "none"]

\* PartialPlus.append_arg(arg)
append_arg(h, n, arg) == [h EXCEPT ![n].args = Append(@, arg)]

\* node.keywords[name] = arg, on the dict the keywords property hands out
set_keyword(h, n, name, arg) ==
    IF name \in KwNames(h[n].keywords)
    THEN [h EXCEPT ![n].keywords[KwGet(h[n].keywords, name)].node = arg]
    ELSE [h EXCEPT ![n].keywords = Append(@, [name |-> name, node |-> arg])]

\* del node.keywords[name]
del_keyword(h, n, name) ==
    [h EXCEPT ![n].keywords = SelectSeq(@, LAMBDA e : e.name # name)]

\* the binary operators PartialPlus defines (__getitem__ apart) and the
\* function each hands to partial()
BinaryMethods ==
    [__add__ |-> "add", __sub__ |-> "sub", __mul__ |-> "mul",
     __floordiv__ |-> "floordiv", __mod__ |-> "mod", __divmod__ |-> "divmod",
     __pow__ |-> "pow", __lshift__ |-> "lshift", __rshift__ |-> "rshift",
     __and__ |-> "and_", __xor__ |-> "xor", __or__ |-> "or_",
     __div__ |-> "div", __truediv__ |-> "truediv",
     __lt__ |-> "lt", __le__ |-> "le", __gt__ |-> "gt", __ge__ |-> "ge"]

\* the unary operators PartialPlus defines and what each hands to partial():
\* the function and the arguments after self
UnaryMethods ==
    [__neg__ |-> [func |-> "neg", extra |-> <<[kind |-> "str", s |-> "-"]>>],
     __pos__ |-> [func |-> "pos", extra |-> <<>>],
     __abs__ |-> [func |-> "abs", extra |-> <<>>],
     __invert__ |-> [func |-> "abs", extra |-> <<>>]]

\* the expression  self <operator> other  on two nodes: a node built in heap,
\* a value that is no node, or an exception.  PartialPlus defines the
\* operator.  Literal defines __lt__ and __gt__ only, each giving a bool, and
\* no class defines a reflected arithmetic method; <= and >= with a Literal on
\* the left fall to the right operand's reflected comparison, or to the
\* default ordering by address when both are Literals (before: the left one
\* is at the lower address)
binary_operator(h, method, self, other, before) ==
    LET Built(r) == [heap |-> r.heap, node |-> r.node, err |-> "none", val |-> [kind |-> "None"]]
        Gave(b) == [heap |-> h, node |-> NoParent, err |-> "none",
                    val |-> [kind |-> "bool", b |-> b]]
        PartialPlusMethod(m, x, y) ==
            IF m = "__getitem__" THEN __getitem__(h, x, NodeRef(y))
            ELSE partial(h, BinaryMethods[m],
                         <<NodeRef(x), NodeRef(y)>>
                             \o (IF m = "__pow__" THEN <<[kind |-> "None"]>> ELSE <<>>),
                         <<>>)
    IN IF ~is_literal(h[self]) THEN Built(PartialPlusMethod(method, self, other))
       ELSE CASE method \in {"__lt__", "__gt__"} ->
                    IF ~is_literal(h[other]) THEN Gave(FALSE)
                    ELSE IF method = "__lt__" THEN Gave(h[self].value.n < h[other].value.n)
                    ELSE Gave(h[self].value.n > h[other].value.n)
              [] method \in {"__le__", "__ge__"} ->
                    IF ~is_literal(h[other])
                    THEN Built(PartialPlusMethod(IF method = "__le__" THEN "__ge__"
                                                 ELSE "__le__", other, self))
                    ELSE Gave(self = other \/ (before <=> method = "__le__"))
              [] OTHER -> [heap |-> h, node |-> NoParent, err |-> "TypeError",
                           val |-> [kind |-> "None"]]

\* the expression  <operator> self  on a node
unary_operator(h, method, self) ==
    IF is_literal(h[self])
    THEN [heap |-> h, node |-> NoParent, err |-> "TypeError", val |-> [kind |-> "None"]]
    ELSE LET r == partial(h, UnaryMethods[method].func,
                          <<NodeRef(self)>> \o UnaryMethods[method].extra, <<>>)
         IN [heap |-> r.heap, node |-> r.node, err |-> "none", val |-> [kind |-> "None"]]

----------------------------------------------------------------------------
(* UniqueStack *)

UniqueStack == [deque |-> <<>>, members |-> {}]

\* a push that compares elem with the head of the stack only
push_raises_head_only(stack, elem) ==
    Len(stack.deque) > 0 /\ stack.deque[Len(stack.deque)] = elem

\* push: KeyError when elem is already a member
push_raises(stack, elem) == elem \in stack.members
push(stack, elem) ==
    [deque |-> Append(stack.deque, elem), members |-> stack.members \cup {elem}]

pop(stack) ==
    LET elem == stack.deque[Len(stack.deque)]
    IN [deque |-> SubSeq(stack.deque, 1, Len(stack.deque) - 1),
        members |-> stack.members \ {elem}]

\* a variant that leaves the stack as it is
pop_until_keeps(stack, elem) == stack

\* pop_until: pops while the head is not elem; ValueError when emptied
RECURSIVE pop_until(_, _)
pop_until(stack, elem) ==
    IF Len(stack.deque) > 0 /\ stack.deque[Len(stack.deque)] # elem
    THEN pop_until(pop(stack), elem)
    ELSE stack

pop_until_raises(stack, elem) == Len(pop_until(stack, elem).deque) = 0

----------------------------------------------------------------------------
(* _traversal_helper, one loop iteration per step *)

HelperInit(root, build_inverted) ==
    [root |-> root, build_inverted |-> build_inverted,
     visited |-> <<>>,
     to_visit |-> <<<<NoParent, root>>>>,
     path |-> push(UniqueStack, NoParent),
     yielded |-> <<>>]

NoHelper == HelperInit(0, FALSE)
NoTopo == [candidates |-> <<>>, dependencies |-> <<>>, visited |-> {}]
NoResult == [root |-> NoParent]

\* the frame to_visit.pop() returns
TopFrame(hp) == hp.to_visit[Len(hp.to_visit)]

\* the loop body raises ValueError: pop_until emptied the stack, or the
\* node is already on the path
helper_raises(hp) ==
    LET parent == TopFrame(hp)[1]
        node == TopFrame(hp)[2]
    IN \/ pop_until_raises(hp.path, parent)
       \/ push_raises(pop_until(hp.path, parent), node)

\* the loop body, when it does not raise; `seen` is the test `node in
\* visited`, `record` whether a repeat visit adds the parent to the index
helper_visit(h, hp, seen, record) ==
    LET parent == TopFrame(hp)[1]
        node == TopFrame(hp)[2]
        rest == SubSeq(hp.to_visit, 1, Len(hp.to_visit) - 1)
        path == push(pop_until(hp.path, parent), node)
        children == inputs(h[node])
    IN IF ~seen
       THEN [hp EXCEPT
               !.path = path,
               !.visited = hp.visited @@
                   (node :> (IF hp.build_inverted THEN {parent} ELSE TRUE)),
               !.yielded = Append(hp.yielded, node),
               !.to_visit = rest \o [i \in 1..Len(children) |-> <<node, children[i]>>]]
       ELSE [hp EXCEPT
               !.path = path,
               !.visited = IF record
                           THEN [hp.visited EXCEPT ![node] = @ \cup {parent}]
                           ELSE hp.visited,
               !.to_visit = rest]

\* a helper that forgets which nodes it has yielded
helper_body_revisits(h, hp) == helper_visit(h, hp, FALSE, hp.build_inverted)

\* a helper that records only the first parent of a node
helper_body_first_parent(h, hp) ==
    helper_visit(h, hp, TopFrame(hp)[2] \in DOMAIN hp.visited, FALSE)

helper_body(h, hp) ==
    helper_visit(h, hp, TopFrame(hp)[2] \in DOMAIN hp.visited, hp.build_inverted)

\* a variant that leaves the sentinel among the root's parents
helper_inverted_keeps_sentinel(hp) == hp.visited

\* after the loop: the inverted index, with the root's sentinel removed
helper_inverted(hp) == [hp.visited EXCEPT ![hp.root] = @ \ {NoParent}]

----------------------------------------------------------------------------
(* topological_sort, one loop iteration per step *)

topo_body(tp) ==
    LET proposed == Head(tp.candidates)
    IN IF tp.dependencies[proposed] \ tp.visited # {}
       THEN [tp EXCEPT !.candidates = Append(Tail(tp.candidates), proposed)]
       ELSE [tp EXCEPT !.candidates = Tail(tp.candidates),
                       !.visited = tp.visited \cup {proposed}]

topo_yields(tp) == tp.dependencies[Head(tp.candidates)] \ tp.visited = {}

----------------------------------------------------------------------------
(* Node.clone *)

\* root.clone(): the nodes in reversed topological order, each copied over
\* the copies of its children, which bindings holds; then
\* bindings[nodes[-1]], where nodes is the iterator reversed() returned and
\* takes no index.  node is NoParent when clone raises.
clone(h, root) ==
    LET RECURSIVE drain(_)
        drain(hp) ==
            IF Len(hp.to_visit) = 0 \/ helper_raises(hp) THEN hp
            ELSE drain(helper_body(h, hp))
        RECURSIVE sort(_, _)
        sort(tp, o) ==
            IF tp.candidates = <<>> THEN o
            ELSE sort(topo_body(tp),
                      IF topo_yields(tp) THEN Append(o, Head(tp.candidates)) ELSE o)
        hp == drain(HelperInit(root, TRUE))
        nodes == sort([candidates |-> hp.yielded, dependencies |-> helper_inverted(hp),
                       visited |-> {}], <<>>)
        RECURSIVE copy(_, _, _)
        copy(k, hh, b) ==
            IF k = 0 THEN [heap |-> hh, bindings |-> b]
            ELSE LET node == h[nodes[k]]
                     args == [i \in 1..Len(node.args) |-> b[node.args[i]]]
                     keywords == [i \in 1..Len(node.keywords) |->
                                     [name |-> node.keywords[i].name,
                                      node |-> b[node.keywords[i].node]]]
                     new == Alloc(hh, IF is_literal(node) THEN Literal(node.value)
                                      ELSE PartialPlus(node.func, args, keywords))
                 IN copy(k - 1, new.heap, (nodes[k] :> new.node) @@ b)
        copied == copy(Len(nodes), h, <<>>)
    IN IF Len(hp.to_visit) > 0
       THEN [heap |-> h, node |-> NoParent, err |-> "ValueError", bindings |-> <<>>]
       ELSE [heap |-> copied.heap, node |-> NoParent, err |-> "TypeError",
             bindings |-> copied.bindings]

----------------------------------------------------------------------------
(* Python operations the evaluator and the called functions rely on *)

IsInt(v) == v.kind = "int"
IsSeqV(v) == v.kind \in {"list", "tuple"}

\* a == b
RECURSIVE PyEq(_, _)
PyEq(a, b) ==
    IF a.kind # b.kind THEN FALSE
    ELSE CASE a.kind \in {"list", "tuple"} ->
                /\ Len(a.elems) = Len(b.elems)
                /\ \A i \in 1..Len(a.elems) : PyEq(a.elems[i], b.elems[i])
           [] a.kind = "dict" ->
                /\ Len(a.items) = Len(b.items)
                /\ IF a.cls = "OrderedDict" /\ b.cls = "OrderedDict"
                   THEN \A i \in 1..Len(a.items) :
                            /\ PyEq(a.items[i].key, b.items[i].key)
                            /\ PyEq(a.items[i].val, b.items[i].val)
                   ELSE \A i \in 1..Len(a.items) : \E j \in 1..Len(b.items) :
                            /\ PyEq(a.items[i].key, b.items[j].key)
                            /\ PyEq(a.items[i].val, b.items[j].val)
           [] a.kind = "obj" -> a.id = b.id
           [] OTHER -> a = b

\* hash(v) does not raise
RECURSIVE Hashable(_)
Hashable(v) ==
    CASE v.kind \in {"list", "dict", "slice"} -> FALSE
      [] v.kind = "tuple" -> \A i \in 1..Len(v.elems) : Hashable(v.elems[i])
      [] OTHER -> TRUE

\* the 0-based positions start, start + step, ... before stop
RECURSIVE Positions(_, _, _)
Positions(start, stop, step) ==
    IF (step > 0 /\ start >= stop) \/ (step < 0 /\ start <= stop) THEN <<>>
    ELSE <<start>> \o Positions(start + step, stop, step)

Clamp(i, lo, hi) == IF i < lo THEN lo ELSE IF i > hi THEN hi ELSE i

\* slice.indices(n), as the positions selected; the step is not 0
SlicePositions(sl, n) ==
    LET step == IF sl.step.kind = "None" THEN 1 ELSE sl.step.n
        Norm(b, lo, hi, dflt) ==
            IF b.kind = "None" THEN dflt
            ELSE Clamp(IF b.n < 0 THEN b.n + n ELSE b.n, lo, hi)
    IN IF step > 0
       THEN Positions(Norm(sl.start, 0, n, 0), Norm(sl.stop, 0, n, n), step)
       ELSE Positions(Norm(sl.start, -1, n - 1, n - 1), Norm(sl.stop, -1, n - 1, -1), step)

Pick(s, positions) == [i \in 1..Len(positions) |-> s[positions[i] + 1]]

Returned(v) == [err |-> "none", errval |-> NoneV, val |-> v]
Raised(e, v) == [err |-> e, errval |-> v, val |-> NoneV]

\* s[index] on a tuple or a list of n items: the positions selected
SeqIndexError(n, index) ==
    CASE index.kind = "int" ->
            IF index.n >= n \/ index.n < -n THEN "IndexError" ELSE "none"
      [] index.kind = "slice" ->
            IF index.step.kind = "int" /\ index.step.n = 0 THEN "ValueError" ELSE "none"
      [] OTHER -> "TypeError"

SeqIndexPositions(n, index) ==
    IF index.kind = "int"
    THEN <<IF index.n < 0 THEN index.n + n ELSE index.n>>
    ELSE SlicePositions(index, n)

\* the first position of keys whose key equals k, 0 if none (list.index)
FirstEqual(keys, k) ==
    IF \E i \in 1..Len(keys) : PyEq(keys[i], k)
    THEN CHOOSE i \in 1..Len(keys) :
            /\ PyEq(keys[i], k)
            /\ \A j \in 1..(i - 1) : ~PyEq(keys[j], k)
    ELSE 0

\* operator.getitem(a, b); id names the object a slice creates
py_getitem(a, b, id) ==
    CASE IsSeqV(a) ->
            IF SeqIndexError(Len(a.elems), b) # "none"
            THEN Raised(SeqIndexError(Len(a.elems), b), b)
            ELSE IF b.kind = "int"
                 THEN Returned(a.elems[SeqIndexPositions(Len(a.elems), b)[1] + 1])
                 ELSE Returned([a EXCEPT !.id = id,
                                  !.elems = Pick(a.elems, SlicePositions(b, Len(a.elems)))])
      [] a.kind = "dict" ->
            IF ~Hashable(b) THEN Raised("TypeError", b)
            ELSE LET i == FirstEqual([j \in 1..Len(a.items) |-> a.items[j].key], b)
                 IN IF i = 0 THEN Raised("KeyError", b) ELSE Returned(a.items[i].val)
      [] OTHER -> Raised("TypeError", b)

\* cls(pairs) for a dict class: later pairs overwrite earlier ones
RECURSIVE dict_items(_, _)
dict_items(items, pairs) ==
    IF pairs = <<>> THEN items
    ELSE LET k == Head(pairs).elems[1]
             v == Head(pairs).elems[2]
             i == FirstEqual([j \in 1..Len(items) |-> items[j].key], k)
         IN dict_items(IF i = 0 THEN Append(items, [key |-> k, val |-> v])
                       ELSE [items EXCEPT ![i].val = v],
                       Tail(pairs))

\* a variant that rebuilds every mapping as a plain dict
make_dict_plain(cls, pairs, id) ==
    IF \E i \in 1..Len(pairs) : ~IsSeqV(pairs[i]) THEN Raised("TypeError", NoneV)
    ELSE Returned(DictV(id, "dict", dict_items(<<>>, pairs)))

make_dict(cls, pairs, id) ==
    IF \E i \in 1..Len(pairs) : ~IsSeqV(pairs[i]) THEN Raised("TypeError", NoneV)
    ELSE IF \E i \in 1..Len(pairs) : Len(pairs[i].elems) # 2 THEN Raised("ValueError", NoneV)
    ELSE IF \E i \in 1..Len(pairs) : ~Hashable(pairs[i].elems[1]) THEN Raised("TypeError", NoneV)
    ELSE Returned(DictV(id, cls, dict_items(<<>>, pairs)))

DictClasses == {"dict", "OrderedDict"}

\* a float, held as the fraction num/den in lowest terms, den > 0
FloatV(num, den) ==
    LET g == CHOOSE g \in 1..den :
                 /\ num % g = 0 /\ den % g = 0
                 /\ \A k \in (g + 1)..den : num % k # 0 \/ den % k # 0
    IN [kind |-> "float", num |-> num \div g, den |-> den \div g]

\* a // b on ints, b not 0: the quotient rounded down
FloorDiv(a, b) == IF b > 0 THEN a \div b ELSE (0 - a) \div (0 - b)

RECURSIVE Power(_, _)
Power(a, b) == IF b = 0 THEN 1 ELSE a * Power(a, b - 1)

\* a & b, a | b, a ^ b on ints in two's complement of unbounded width
RECURSIVE Bitwise(_, _, _)
Bitwise(f, a, b) ==
    LET bit(x, y) ==
            CASE f = "and_" -> IF x = 1 /\ y = 1 THEN 1 ELSE 0
              [] f = "or_" -> IF x = 1 \/ y = 1 THEN 1 ELSE 0
              [] OTHER -> IF x # y THEN 1 ELSE 0
    IN IF a \in {0, -1} /\ b \in {0, -1}
       THEN 0 - bit(0 - a, 0 - b)
       ELSE bit(a % 2, b % 2) + 2 * Bitwise(f, a \div 2, b \div 2)

\* f(*args) for the functions of the operator module, divmod, pow and abs,
\* on ints; pow takes an optional third argument, None or the modulo
operator_call(f, args, id) ==
    LET arity == IF f \in {"neg", "pos", "abs"} THEN {1}
                 ELSE IF f = "pow" THEN {2, 3} ELSE {2}
        a == args[1].n
        b == args[2].n
        ZeroDivision == Raised("ZeroDivisionError", NoneV)
    IN IF Len(args) \notin arity \/ \E i \in 1..Len(args) : i <= 2 /\ ~IsInt(args[i])
       THEN Raised("TypeError", NoneV)
       ELSE CASE f = "neg" -> Returned(IntV(0 - a))
              [] f = "pos" -> Returned(IntV(a))
              [] f = "abs" -> Returned(IntV(IF a < 0 THEN 0 - a ELSE a))
              [] f = "add" -> Returned(IntV(a + b))
              [] f = "sub" -> Returned(IntV(a - b))
              [] f = "mul" -> Returned(IntV(a * b))
              [] f \in {"floordiv", "div"} ->
                    IF b = 0 THEN ZeroDivision ELSE Returned(IntV(FloorDiv(a, b)))
              [] f = "truediv" ->
                    IF b = 0 THEN ZeroDivision
                    ELSE Returned(IF b > 0 THEN FloatV(a, b) ELSE FloatV(0 - a, 0 - b))
              [] f = "mod" ->
                    IF b = 0 THEN ZeroDivision ELSE Returned(IntV(a - b * FloorDiv(a, b)))
              [] f = "divmod" ->
                    IF b = 0 THEN ZeroDivision
                    ELSE Returned(TupleV(id, <<IntV(FloorDiv(a, b)),
                                               IntV(a - b * FloorDiv(a, b))>>))
              [] f = "lshift" ->
                    IF b < 0 THEN Raised("ValueError", NoneV)
                    ELSE Returned(IntV(a * Power(2, b)))
              [] f = "rshift" ->
                    IF b < 0 THEN Raised("ValueError", NoneV)
                    ELSE Returned(IntV(a \div Power(2, b)))
              [] f \in {"and_", "xor", "or_"} -> Returned(IntV(Bitwise(f, a, b)))
              [] f = "lt" -> Returned(BoolV(a < b))
              [] f = "le" -> Returned(BoolV(a <= b))
              [] f = "gt" -> Returned(BoolV(a > b))
              [] f = "ge" -> Returned(BoolV(a >= b))
              [] OTHER ->
                    IF Len(args) = 3 /\ args[3].kind \notin {"None", "int"}
                    THEN Raised("TypeError", NoneV)
                    ELSE IF Len(args) = 3 /\ args[3].kind = "int"
                    THEN IF b < 0 THEN Raised("TypeError", NoneV)
                         ELSE IF args[3].n = 0 THEN Raised("ValueError", NoneV)
                         ELSE Returned(IntV(Power(a, b)
                                            - args[3].n * FloorDiv(Power(a, b), args[3].n)))
                    ELSE IF b >= 0 THEN Returned(IntV(Power(a, b)))
                    ELSE IF a = 0 THEN ZeroDivision
                    ELSE Returned(IF Power(a, 0 - b) > 0 THEN FloatV(1, Power(a, 0 - b))
                                  ELSE FloatV(-1, 0 - Power(a, 0 - b)))

\* f(*args, **kw) for the functions a graph of the model refers to;
\* id names the object the call creates
Call(f, args, kw, id) ==
    CASE f = "make_list" ->
            IF kw # <<>> THEN Raised("TypeError", NoneV) ELSE Returned(ListV(id, args))
      [] f = "make_tuple" ->
            IF kw # <<>> THEN Raised("TypeError", NoneV) ELSE Returned(TupleV(id, args))
      [] f = "call_with_list_of_pos_args" ->
            IF kw # <<>> \/ args = <<>> THEN Raised("TypeError", NoneV)
            ELSE IF Head(args).kind = "class" /\ Head(args).s \in DictClasses
                 THEN make_dict(Head(args).s, Tail(args), id)
                 ELSE Raised("TypeError", NoneV)
      [] f = "getitem" ->
            IF kw # <<>> \/ Len(args) # 2 THEN Raised("TypeError", NoneV)
            ELSE py_getitem(args[1], args[2], id)
      [] f = "choice_node" ->
            IF kw # <<>> \/ Len(args) # 1 THEN Raised("TypeError", NoneV)
            ELSE Returned(args[1])
      [] f = "int" ->
            IF kw # <<>> \/ Len(args) # 1 \/ ~IsInt(args[1])
            THEN Raised("TypeError", NoneV) ELSE Returned(args[1])
      [] f \in {BinaryMethods[m] : m \in DOMAIN BinaryMethods}
                 \cup {UnaryMethods[m].func : m \in DOMAIN UnaryMethods} ->
            IF kw # <<>> THEN Raised("TypeError", NoneV) ELSE operator_call(f, args, id)
      [] f \in {"append_yaml_src", "preprocess"} ->
            \* the object, whether or not it takes the attribute; the
            \* string, which holds nothing to substitute
            IF Len(args) # (IF f = "preprocess" THEN 1 ELSE 2) THEN Raised("TypeError", NoneV)
            ELSE Returned(args[1])
      [] f = "dont_eval" -> Raised("AssertionError", NoneV)
      [] f = "variable_node" -> Returned(NoneV)
      [] OTHER -> Returned(ObjV(id))

----------------------------------------------------------------------------
(* The evaluator *)

\* issubclass(value, dict)
issubclass_dict(value) == value.kind = "class" /\ value.s \in DictClasses

is_dict_like_node(h, node) ==
    /\ is_pos_args_node(node)
    /\ is_literal(h[node.args[1]])
    /\ issubclass_dict(h[node.args[1]].value)

\* is_dict_like_node raises: no args[0], or a Literal that holds no class
is_dict_like_raises(h, node) ==
    /\ is_pos_args_node(node)
    /\ \/ Len(node.args) = 0
       \/ is_literal(h[node.args[1]]) /\ h[node.args[1]].value.kind # "class"

\* a variant that never takes the lazy path
is_indexable_never(h, node) == FALSE

is_indexable(h, node) ==
    /\ Len(node.args) = 2
    /\ Len(node.keywords) = 0
    /\ \/ is_sequence_node(h[node.args[1]])
       \/ is_dict_like_node(h, h[node.args[1]])

is_indexable_raises(h, node) ==
    /\ Len(node.args) = 2
    /\ Len(node.keywords) = 0
    /\ ~is_sequence_node(h[node.args[1]])
    /\ is_dict_like_raises(h, h[node.args[1]])

\* the state one evaluate call threads through its recursion: the bindings
\* dict (its Node keys are `memo`, its name keys `env`), a log of the calls
\* made and of the nodes evaluated, and the value returned or the exception
\* a variant that starts from the memo table the call before left
NewEval_remembers(e) ==
    [memo |-> IF op = "evaluate" THEN result.st.memo ELSE <<>>,
     env |-> IF op = "evaluate" THEN e \o result.st.env ELSE e,
     calls |-> <<>>, evald |-> <<>>, val |-> NoneV, err |-> "none", errval |-> NoneV]

\* the state a call of evaluate starts in: bindings is the dict of its own
\* keyword arguments
NewEval(e) ==
    [memo |-> <<>>, env |-> e, calls |-> <<>>, evald |-> <<>>,
     val |-> NoneV, err |-> "none", errval |-> NoneV]

Ok(st) == st.err = "none"
Raise(st, e, v) == [st EXCEPT !.err = e, !.errval = v, !.val = NoneV]
Return(st, v) == [st EXCEPT !.val = v]
\* a variant that returns v and records nothing
Memoize_forgets(st, p, v) == [st EXCEPT !.val = v]

\* a variant that records v for every node of the graph that looks like p
Memoize_by_content(st, p, v) ==
    [st EXCEPT !.memo = [q \in {q \in Nodes(heap) : p \in Nodes(heap) /\ heap[q] = heap[p]}
                            \cup {p} |-> v] @@ @,
               !.val = v]

\* bindings[p] = v; return bindings[p]
Memoize(st, p, v) == [st EXCEPT !.memo = (p :> v) @@ @, !.val = v]
\* instantiate_call(f, *args, **kw) made while evaluating node p; argnodes
\* are the nodes whose values the arguments are (NoParent where there is none)
Logged(st, p, f, argnodes, args, kw) ==
    [st EXCEPT !.calls = Append(@, [node |-> p, func |-> f, argnodes |-> argnodes,
                                    args |-> args, kw |-> kw])]
\* a variant that takes what a failing call left for its value
Finish_suppresses(st, p, r) == Memoize(st, p, r.val)

\* bindings[p] = instantiate_call(...): the call returns or raises
Finish(st, p, r) ==
    IF r.err # "none" THEN Raise(st, r.err, r.errval) ELSE Memoize(st, p, r.val)

\* a variant that answers None for a name that is not bound
lookup_variable_or_none(st, name) ==
    IF name.kind = "str" /\ \E i \in 1..Len(st.env) : st.env[i].name = name.s
    THEN Return(st, st.env[CHOOSE i \in 1..Len(st.env) : st.env[i].name = name.s].val)
    ELSE Return(st, NoneV)

\* the variable node's lookup of its name in bindings; the keyword
\* arguments of evaluate are a sequence of [name, val] entries
lookup_variable(st, name) ==
    IF ~Hashable(name) THEN Raise(st, "TypeError", name)
    ELSE IF name.kind = "str" /\ \E i \in 1..Len(st.env) : st.env[i].name = name.s
         THEN Return(st, st.env[CHOOSE i \in 1..Len(st.env) : st.env[i].name = name.s].val)
         ELSE Raise(st, "KeyError", name)

RECURSIVE _evaluate(_, _, _)
RECURSIVE EvalAll(_, _, _)
RECURSIVE _handle_indexing(_, _, _)

\* a variant that evaluates the nodes last to first
RECURSIVE EvalAll_backwards(_, _, _)
EvalAll_backwards(h, st, nodes) ==
    IF nodes = <<>> THEN [st |-> st, vals |-> <<>>]
    ELSE LET rest == EvalAll_backwards(h, st, Tail(nodes))
             first == _evaluate(h, rest.st, Head(nodes))
         IN IF ~Ok(rest.st) THEN [st |-> rest.st, vals |-> <<>>]
            ELSE IF ~Ok(first) THEN [st |-> first, vals |-> <<>>]
            ELSE [st |-> first, vals |-> <<first.val>> \o rest.vals]

\* [recurse(n) for n in nodes]: stops at the first exception
EvalAll(h, st, nodes) ==
    IF nodes = <<>> THEN [st |-> st, vals |-> <<>>]
    ELSE LET first == _evaluate(h, st, Head(nodes))
         IN IF ~Ok(first) THEN [st |-> first, vals |-> <<>>]
            ELSE LET rest == EvalAll(h, first, Tail(nodes))
                 IN [st |-> rest.st, vals |-> <<first.val>> \o rest.vals]

_handle_indexing(h, st, p) ==
    LET obj == h[h[p].args[1]]
        i == _evaluate(h, st, h[p].args[2])
        index_val == i.val
    IN IF ~Ok(i) THEN i
       ELSE IF is_sequence_node(obj)
       THEN IF SeqIndexError(Len(obj.args), index_val) # "none"
            THEN Raise(i, SeqIndexError(Len(obj.args), index_val), index_val)
            ELSE LET elem_val == Pick(obj.args, SeqIndexPositions(Len(obj.args), index_val))
                 IN IF index_val.kind = "slice"
                    THEN LET e == EvalAll(h, i, elem_val)
                             made == Call(obj.func, e.vals, <<>>, Len(e.st.calls) + 1)
                             s1 == Logged(e.st, p, obj.func, elem_val, e.vals, <<>>)
                             \* int(index_val) raises TypeError: the except branch
                             again == Call(h[p].func, <<made.val, index_val>>, <<>>,
                                           Len(s1.calls) + 1)
                         IN IF ~Ok(e.st) THEN e.st
                            ELSE Finish(Logged(s1, p, h[p].func, <<NoParent, h[p].args[2]>>,
                                               <<made.val, index_val>>, <<>>), p, again)
                    ELSE LET e == _evaluate(h, i, elem_val[1])
                         IN IF ~Ok(e) THEN e ELSE Memoize(e, p, e.val)
       ELSE \* assumes is_dict_like_node(obj)
            LET pairs == Tail(obj.args)
            IN IF \E j \in 1..Len(pairs) :
                     ~(is_tuple_node(h[pairs[j]]) /\ Len(h[pairs[j]].args) = 2)
               THEN Raise(i, "AssertionError", NoneV)
               ELSE IF pairs = <<>>
               THEN \* keys, values = zip(): nothing to unpack
                    Raise(i, "ValueError", NoneV)
               ELSE LET keys == EvalAll(h, i, [j \in 1..Len(pairs) |-> h[pairs[j]].args[1]])
                        ind == FirstEqual(keys.vals, index_val)
                    IN IF ~Ok(keys.st) THEN keys.st
                       ELSE IF ind = 0 THEN Raise(keys.st, "KeyError", index_val)
                       ELSE LET v == _evaluate(h, keys.st, h[pairs[ind]].args[2])
                            IN IF ~Ok(v) THEN v ELSE Memoize(v, p, v.val)

_evaluate(h, st, p) ==
    IF p \in DOMAIN st.memo THEN Return(st, st.memo[p])
    ELSE LET s0 == [st EXCEPT !.evald = Append(@, p)]
         IN IF is_literal(h[p]) THEN Memoize(s0, p, h[p].value)
            ELSE IF h[p].func = "getitem" /\ is_indexable_raises(h, h[p])
            THEN Raise(s0, "TypeError", NoneV)
            ELSE IF h[p].func = "getitem" /\ is_indexable(h, h[p])
            THEN _handle_indexing(h, s0, p)
            ELSE LET a == EvalAll(h, s0, h[p].args)
                     k == EvalAll(h, a.st, KwValues(h[p].keywords))
                     kw == [j \in 1..Len(h[p].keywords) |->
                               [name |-> h[p].keywords[j].name, val |-> k.vals[j]]]
                 IN IF ~Ok(a.st) THEN a.st
                    ELSE IF ~Ok(k.st) THEN k.st
                    ELSE IF is_variable_node(h[p])
                    THEN IF "name" \notin KwNames(h[p].keywords)
                         THEN Raise(k.st, "AssertionError", NoneV)
                         ELSE lookup_variable(k.st,
                                  k.vals[KwGet(h[p].keywords, "name")])
                    ELSE Finish(Logged(k.st, p, h[p].func, h[p].args, a.vals, kw), p,
                                Call(h[p].func, a.vals, kw, Len(k.st.calls) + 1))

\* evaluate(p, **kwargs)
evaluate(h, p, kwargs) == _evaluate(h, NewEval(kwargs), p)

----------------------------------------------------------------------------
(* The loader: proxy_to_partialplus *)

\* proxy_to_partialplus(proxy, bindings=b) with the default callbacks, on a
\* hierarchy of Proxy, list and dict objects (each with its identity id) over
\* ints and strings; bindings maps the identity of a converted Proxy to its
\* node.  A Proxy is [kind |-> "proxy", id, pfunc, pargs, pkeywords, src]
\* for callable, positionals, keywords and yaml_src.
\* a variant that records no conversion
bindings_forget(b, proxy, p) == b

\* bindings[proxy] = p
bindings_set(b, proxy, p) == (proxy.id :> p) @@ b

RECURSIVE proxy_to_partialplus(_, _, _)
proxy_to_partialplus(h, b, proxy) ==
    LET RECURSIVE recurse(_, _, _)
        \* [recurse(v) for v in s], threading the heap and bindings
        recurse(hh, bb, s) ==
            IF s = <<>> THEN [heap |-> hh, bindings |-> bb, nodes |-> <<>>]
            ELSE LET first == proxy_to_partialplus(hh, bb, Head(s))
                     rest == recurse(first.heap, first.bindings, Tail(s))
                 IN [heap |-> rest.heap, bindings |-> rest.bindings,
                     nodes |-> <<NodeRef(first.node)>> \o rest.nodes]
        Made(r, bb) == [heap |-> r.heap, node |-> r.node, bindings |-> bb]
    IN CASE proxy.kind = "proxy" ->
              IF proxy.id \in DOMAIN b THEN [heap |-> h, node |-> b[proxy.id], bindings |-> b]
              ELSE IF proxy.pfunc = "do_not_recurse"
              THEN Made(Alloc(h, Literal(proxy.pkeywords[
                        CHOOSE i \in 1..Len(proxy.pkeywords) :
                            proxy.pkeywords[i].name = "value"].val)), b)
              ELSE LET args == recurse(h, b, proxy.pargs)
                       kwargs == recurse(args.heap, args.bindings,
                                         [i \in 1..Len(proxy.pkeywords) |->
                                             proxy.pkeywords[i].val])
                       pp == partial(kwargs.heap, proxy.pfunc, args.nodes,
                                     [i \in 1..Len(proxy.pkeywords) |->
                                         [name |-> proxy.pkeywords[i].name,
                                          val |-> kwargs.nodes[i]]])
                       \* append_yaml_callback(proxy, pp)
                       p == partial(pp.heap, "append_yaml_src",
                                    <<NodeRef(pp.node), proxy.src>>, <<>>)
                   IN Made(p, bindings_set(kwargs.bindings, proxy, p.node))
         [] proxy.kind = "list" ->
              LET e == recurse(h, b, proxy.elems)
              IN Made(as_partialplus(e.heap, ListV(0, e.nodes)), e.bindings)
         [] proxy.kind = "dict" ->
              LET v == recurse(h, b, [i \in 1..Len(proxy.items) |-> proxy.items[i].val])
              IN Made(as_partialplus(v.heap,
                          DictV(0, "dict", [i \in 1..Len(proxy.items) |->
                                               [key |-> proxy.items[i].key,
                                                val |-> v.nodes[i]]])),
                      v.bindings)
         [] proxy.kind = "str" ->
              LET environ == Alloc(h, Literal(NoneV))
              IN Made(partial(environ.heap, "preprocess", <<proxy>>,
                              <<[name |-> "environ", val |-> NodeRef(environ.node)]>>), b)
         [] OTHER -> Made(as_partialplus(h, proxy), b)

----------------------------------------------------------------------------
(* Parameter binding: PartialPlus.arg *)

\* the code objects and defaults of the functions bound:
\*   f_ab(a, b=None)   f_star(a, *b)   f_kw(a, **b)   f_star_kw(a, *u, **b)
FunctionCode ==
    [f_ab |-> [co_argcount |-> 2, co_varargs |-> FALSE, co_varkeywords |-> FALSE,
               co_varnames |-> <<"a", "b">>, defaults |-> <<NoneV>>],
     f_star |-> [co_argcount |-> 1, co_varargs |-> TRUE, co_varkeywords |-> FALSE,
                 co_varnames |-> <<"a", "b">>, defaults |-> <<>>],
     f_kw |-> [co_argcount |-> 1, co_varargs |-> FALSE, co_varkeywords |-> TRUE,
               co_varnames |-> <<"a", "b">>, defaults |-> <<>>],
     f_star_kw |-> [co_argcount |-> 1, co_varargs |-> TRUE, co_varkeywords |-> TRUE,
                    co_varnames |-> <<"a", "u", "b">>, defaults |-> <<>>]]

\* None where a parameter name is expected
NoName == "None"

MissingArgument == [kind |-> "MissingArgument"]

\* the argument of a TypeError the binder raises: its text and the name the
\* text ends with
Message(text, name) == [kind |-> "message", s |-> text, name |-> name]

\* a variant that reports no *args parameter
_extract_param_names_no_star(code) ==
    [pos_params |-> SubSeq(code.co_varnames, 1, code.co_argcount),
     args_param |-> NoName,
     kwargs_param |-> IF code.co_varkeywords
                      THEN code.co_varnames[code.co_argcount
                                              + (IF code.co_varargs THEN 1 ELSE 0) + 1]
                      ELSE NoName]

_extract_param_names(code) ==
    LET extra_args_ok == code.co_varargs
        extra_kwargs_ok == code.co_varkeywords
        expected_num_args == code.co_argcount + (IF extra_args_ok THEN 1 ELSE 0)
                                + (IF extra_kwargs_ok THEN 1 ELSE 0)
        param_names == SubSeq(code.co_varnames, 1, expected_num_args)
    IN [pos_params |-> SubSeq(param_names, 1, code.co_argcount),
        args_param |-> IF extra_args_ok THEN param_names[code.co_argcount + 1] ELSE NoName,
        kwargs_param |-> IF extra_kwargs_ok
                         THEN param_names[code.co_argcount
                                            + (IF extra_args_ok THEN 1 ELSE 0) + 1]
                         ELSE NoName]

\* the loop of _bind_parameters over named_args.iteritems()
RECURSIVE bind_named(_, _, _, _)
bind_named(params, named_args, kwargs_param, binding) ==
    IF named_args = <<>> THEN [binding |-> binding, err |-> "none", errval |-> NoneV]
    ELSE LET aname == Head(named_args).name
             aval == NodeRef(Head(named_args).node)
         IN IF aname \in Range(params) /\ aname \notin DOMAIN binding
            THEN bind_named(params, Tail(named_args), kwargs_param,
                            (aname :> aval) @@ binding)
            ELSE IF aname \in DOMAIN binding /\ aname # kwargs_param
            THEN [binding |-> <<>>, err |-> "TypeError",
                  errval |-> Message("Duplicate argument for parameter", aname)]
            ELSE IF kwargs_param # NoName
            THEN bind_named(params, Tail(named_args), kwargs_param,
                    [binding EXCEPT ![kwargs_param].items =
                        Append(@, [key |-> StrV(aname), val |-> aval])])
            ELSE [binding |-> <<>>, err |-> "TypeError",
                  errval |-> Message("Unrecognized keyword argument", aname)]

\* a variant in which a keyword replaces what a positional argument bound
_bind_parameters_overwrites(params, named_args, kwargs_param, binding) ==
    bind_named(params, named_args, kwargs_param,
               [n \in DOMAIN binding \ {named_args[i].name : i \in 1..Len(named_args)} |->
                   binding[n]])

_bind_parameters(params, named_args, kwargs_param, binding) ==
    bind_named(params, named_args, kwargs_param,
               IF kwargs_param # NoName
               THEN (kwargs_param :> DictV(0, "dict", <<>>)) @@ binding
               ELSE binding)

\* for param_i, arg_i in izip(params, pos_args): binding[param_i] = arg_i
RECURSIVE bind_positional(_, _, _)
bind_positional(params, pos_args, binding) ==
    IF params = <<>> \/ pos_args = <<>> THEN binding
    ELSE bind_positional(Tail(params), Tail(pos_args),
                         (Head(params) :> NodeRef(Head(pos_args))) @@ binding)

\* binding.setdefault(param_i, Literal(default_i)) over the right-aligned defaults
RECURSIVE fill_defaults(_, _, _)
fill_defaults(params, defaults, binding) ==
    IF params = <<>> \/ defaults = <<>> THEN binding
    ELSE fill_defaults(Tail(params), Tail(defaults),
                       IF Head(params) \in DOMAIN binding THEN binding
                       ELSE (Head(params) :> Literal(Head(defaults))) @@ binding)

\* a variant that aligns the defaults with the head of the parameter list
defaulted_left(params, defaults) == SubSeq(params, 1, Len(defaults))

\* params[-len(defaults):], the parameters the defaults are zipped with
defaulted(params, defaults) ==
    IF defaults = <<>> THEN params
    ELSE SubSeq(params, Len(params) - Len(defaults) + 1, Len(params))

\* binding.update(izip(missing_names, repeat(MissingArgument)))
mark_missing(params, binding) ==
    [name \in DOMAIN binding \cup Range(params) |->
        IF name \in DOMAIN binding THEN binding[name] ELSE MissingArgument]

_param_assignment(h, pp) ==
    LET code == FunctionCode[h[pp].func]
        pos_args == h[pp].args
        named_args == h[pp].keywords
        names == _extract_param_names(code)
        params == names.pos_params
        starred == IF names.args_param # NoName
                   THEN (names.args_param :>
                            TupleV(0, [i \in 1..(Len(pos_args) - Clamp(code.co_argcount, 0, Len(pos_args))) |->
                                          NodeRef(pos_args[i + code.co_argcount])]))
                   ELSE <<>>
        positional == bind_positional(params, pos_args, starred)
        named == _bind_parameters(params, named_args, names.kwargs_param, positional)
        tail == defaulted(params, code.defaults)
    IN IF Len(pos_args) > code.co_argcount /\ names.args_param = NoName
       THEN [binding |-> <<>>, err |-> "TypeError",
             errval |-> Message("Argument count exceeds number of positional params", "")]
       ELSE IF named.err # "none" THEN named
       ELSE [binding |-> mark_missing(params, fill_defaults(tail, code.defaults, named.binding)),
             err |-> "none", errval |-> NoneV]

----------------------------------------------------------------------------
(* Actions *)

Init ==
    /\ heap = <<>>
    /\ handles = <<>>
    /\ given = <<>>
    /\ nops = 0
    /\ pc = "build"
    /\ op = "none"
    /\ helper = NoHelper
    /\ topo = NoTopo
    /\ out = <<>>
    /\ raised = "none"
    /\ env = <<>>
    /\ result = NoResult

Building == pc = "build" /\ nops < MaxOps

\* a builder operation given x returned node r.node, leaving the heap r.heap
GrowTo(cap, r, x) ==
    /\ Len(r.heap) <= cap
    /\ heap' = r.heap
    /\ handles' = Append(handles, r.node)
    /\ given' = Append(given, x)
    /\ nops' = nops + 1
    /\ UNCHANGED <<pc, op, helper, topo, out, raised, env, result>>

Grow(r, x) == GrowTo(MaxNodes, r, x)

\* an operation changed a node in place, leaving the heap h
Mutate(h) ==
    /\ heap' = h
    /\ nops' = nops + 1
    /\ UNCHANGED <<handles, given, pc, op, helper, topo, out, raised, env, result>>

SeqsOver(S, counts) == UNION {[1..n -> S] : n \in counts}

NodeRefs(h) == {NodeRef(i) : i \in Nodes(h)}

\* as_partialplus(1): a Literal
BuildLiteral ==
    /\ Building
    /\ Grow(as_partialplus(heap, IntV(1)), IntV(1))

\* partial(f, *args) over nodes built before
BuildApply ==
    /\ Building
    /\ \E a \in SeqsOver(NodeRefs(heap), ArgCounts) :
         Grow(partial(heap, "f", a, <<>>), PartialV("f", a, <<>>))

\* p.append_arg(q)
AppendArg ==
    /\ Building
    /\ \E n \in Nodes(heap), m \in Nodes(heap) :
         /\ heap[n].kind = "PartialPlus"
         /\ Len(heap[n].args) < 3
         /\ Mutate(append_arg(heap, n, m))

\* p.keywords[name] = q
SetKeyword ==
    /\ Building
    /\ \E n \in Nodes(heap), m \in Nodes(heap) :
         /\ heap[n].kind = "PartialPlus"
         /\ Mutate(set_keyword(heap, n, "k", m))

\* del p.keywords[name]
DelKeyword ==
    /\ Building
    /\ \E n \in Nodes(heap) :
         /\ heap[n].kind = "PartialPlus"
         /\ "k" \in KwNames(heap[n].keywords)
         /\ Mutate(del_keyword(heap, n, "k"))

\* list(depth_first_traversal(root)) begins
StartDFS ==
    /\ pc = "build"
    /\ \E root \in Nodes(heap) :
         helper' = HelperInit(root, FALSE)
    /\ pc' = "traverse"
    /\ op' = "depth_first_traversal"
    /\ UNCHANGED <<heap, handles, given, nops, topo, out, raised, env, result>>

\* list(topological_sort(root)) begins: it first drains the helper
StartTopo ==
    /\ pc = "build"
    /\ \E root \in Nodes(heap) :
         helper' = HelperInit(root, TRUE)
    /\ pc' = "traverse"
    /\ op' = "topological_sort"
    /\ UNCHANGED <<heap, handles, given, nops, topo, out, raised, env, result>>

\* one iteration of the helper's while loop
HelperStep ==
    /\ pc = "traverse"
    /\ Len(helper.to_visit) > 0
    /\ IF helper_raises(helper)
       THEN /\ raised' = "ValueError"
            /\ pc' = "done"
            /\ UNCHANGED <<helper, out>>
       ELSE /\ helper' = helper_body(heap, helper)
            /\ out' = IF op = "depth_first_traversal" THEN helper'.yielded ELSE out
            /\ UNCHANGED <<raised, pc>>
    /\ UNCHANGED <<heap, handles, given, nops, op, topo, env, result>>

\* the helper's loop is over
HelperReturn ==
    /\ pc = "traverse"
    /\ Len(helper.to_visit) = 0
    /\ IF helper.build_inverted
       THEN /\ topo' = [candidates |-> helper.yielded,
                        dependencies |-> helper_inverted(helper),
                        visited |-> {}]
            /\ pc' = "topo"
       ELSE /\ pc' = "done"
            /\ UNCHANGED topo
    /\ UNCHANGED <<heap, handles, given, nops, op, helper, out, raised, env, result>>

\* one iteration of topological_sort's while loop
TopoStep ==
    /\ pc = "topo"
    /\ topo.candidates # <<>>
    /\ topo' = topo_body(topo)
    /\ out' = IF topo_yields(topo) THEN Append(out, Head(topo.candidates)) ELSE out
    /\ UNCHANGED <<heap, handles, given, nops, pc, op, helper, raised, env, result>>

\* topological_sort's loop is over
TopoReturn ==
    /\ pc = "topo"
    /\ topo.candidates = <<>>
    /\ pc' = "done"
    /\ UNCHANGED <<heap, handles, given, nops, op, helper, topo, out, raised, env, result>>

NextTrav ==
    \/ BuildLiteral
    \/ BuildApply
    \/ AppendArg
    \/ SetKeyword
    \/ DelKeyword
    \/ StartDFS
    \/ StartTopo
    \/ HelperStep
    \/ HelperReturn
    \/ TopoStep
    \/ TopoReturn

SpecTrav == Init /\ [][NextTrav]_vars

\* a traversal that was begun is run to its end: the loops of the helper and
\* of topological_sort are straight-line code of the one caller
SpecTravFair ==
    SpecTrav /\ WF_vars(HelperStep \/ HelperReturn \/ TopoStep \/ TopoReturn)

----------------------------------------------------------------------------
(* Properties of the traversals *)

NoDuplicates(s) == \A i, j \in 1..Len(s) : s[i] = s[j] => i = j

IndexOf(s, x) == CHOOSE i \in 1..Len(s) : s[i] = x

Acyclic == ~HasCycle(heap, helper.root)

DfsDone == op = "depth_first_traversal" /\ pc = "done"
TopoDone == op = "topological_sort" /\ pc = "done"

\* a reachable node that two different reachable nodes reference
SharedNode ==
    \E n \in Reachable(heap, helper.root) :
        Cardinality({q \in Reachable(heap, helper.root) : n \in Children(heap, q)}) >= 2

\* a reachable node that lists the same child twice
RepeatedChild ==
    \E q \in Reachable(heap, helper.root) :
        ~NoDuplicates(inputs(heap[q]))

\* C1: on an acyclic graph, depth_first_traversal(root) ends without an
\* error having yielded every node reachable from root exactly once, the
\* root first; and it never yields a node twice on the way.
C1_DepthFirstYieldsEachOnce ==
    (op = "depth_first_traversal" /\ Acyclic) =>
        /\ NoDuplicates(out)
        /\ Range(out) \subseteq Reachable(heap, helper.root)
        /\ pc = "done" =>
              /\ raised = "none"
              /\ Range(out) = Reachable(heap, helper.root)
              /\ out[1] = helper.root

C1_Witness ==
    DfsDone /\ Acyclic /\ SharedNode /\ RepeatedChild /\ Len(out) >= 3

\* C2: when a directed cycle is reachable from root, consuming
\* depth_first_traversal(root) or topological_sort(root) ends with
\* ValueError; the helper's loop never runs out normally.
C2_CycleRaises ==
    (op # "none" /\ ~Acyclic) =>
        /\ pc = "done" => raised = "ValueError"
        /\ pc # "topo"
        /\ ~(pc = "traverse" /\ Len(helper.to_visit) = 0)

\* an indirect cycle that does not pass through the root
C2_Witness ==
    /\ pc = "done" /\ raised = "ValueError"
    /\ helper.root \notin UNION {Reachable(heap, c) : c \in Children(heap, helper.root)}
    /\ \A n \in Nodes(heap) : n \notin Children(heap, n)

----------------------------------------------------------------------------
(* Building the graphs that evaluate is given *)

BuildingForEval == pc = "build" /\ nops < MaxEvalOps

HandleRefs == {NodeRef(handles[i]) : i \in 1..Len(handles)}

\* the handles __getitem__ can be called on: Literal does not define it
Indexable == {handles[i] : i \in {j \in 1..Len(handles) : heap[handles[j]].kind = "PartialPlus"}}

DeferredCalls == {PartialV("dont_eval", <<>>, <<>>)}

\* what the elements of a list or a tuple handed to as_partialplus are
SeqAtoms == {IntV(1)} \cup DeferredCalls \cup HandleRefs

\* the keys and the values of a mapping handed to as_partialplus
KeyAtoms == {StrV("a")} \cup HandleRefs
ValueAtoms == {IntV(1)} \cup DeferredCalls \cup HandleRefs

\* the slices start:stop and the reversing slice ::-1
Slices ==
    {SliceV(a, b, NoneV) : a \in {NoneV, IntV(1)}, b \in {NoneV, IntV(1), IntV(2)}}
        \cup {SliceV(NoneV, NoneV, IntV(-1))}

Indexes == {IntV(-1), IntV(0), IntV(1), IntV(2)} \cup Slices \cup {StrV("a"), StrV("b")}

\* the items of a dict: at most n pairs, no key twice
ItemsUpTo(n, K, V) ==
    {items \in SeqsOver([key : K, val : V], 0..n) :
        \A i, j \in 1..Len(items) : items[i].key = items[j].key => i = j}

ItemsOver(K, V) == ItemsUpTo(MaxLen, K, V)

\* nestings of scalars, lists, tuples and mappings, two levels deep
PlainScalars == {IntV(1), StrV("a")}

PlainSeqs(S) ==
    {ListV(0, e) : e \in SeqsOver(S, 0..MaxLen)} \cup {TupleV(0, e) : e \in SeqsOver(S, 0..MaxLen)}

PlainDicts(n, K, V) ==
    {DictV(0, cls, items) : cls \in DictClasses, items \in ItemsUpTo(n, K, V)}

PlainFlat ==
    PlainScalars \cup PlainSeqs(PlainScalars)
        \cup PlainDicts(MaxLen, PlainScalars, PlainScalars)

PlainValues ==
    PlainFlat \cup PlainSeqs(PlainFlat)
        \cup PlainDicts(1, {k \in PlainFlat : Hashable(k)}, PlainFlat)

\* the keyword arguments evaluate is called with
Envs == {<<>>, <<[name |-> "x", val |-> StrV("a")]>>}

\* partial(f, *args) and partial(f, *args, k=node) over nodes built before
BuildCall ==
    /\ BuildingForEval
    /\ \E a \in SeqsOver(HandleRefs, 0..MaxLen),
          k \in SeqsOver([name : {"k"}, val : HandleRefs], 0..1) :
         GrowTo(MaxHeap, partial(heap, "f", a, k), PartialV("f", a, k))

\* as_partialplus([...]) and as_partialplus((...))
BuildSeq ==
    /\ BuildingForEval
    /\ \E e \in SeqsOver(SeqAtoms, 0..MaxLen) : \E x \in {ListV(0, e), TupleV(0, e)} :
         GrowTo(MaxHeap, as_partialplus(heap, x), x)

\* as_partialplus(x) on a value that holds no node and no deferred call
ConvertPlain ==
    /\ BuildingForEval
    /\ handles = <<>>
    /\ \E x \in PlainValues :
         GrowTo(MaxHeap, as_partialplus(heap, x), x)

\* as_partialplus({...}) and as_partialplus(OrderedDict(...))
BuildDict ==
    /\ BuildingForEval
    /\ \E cls \in DictClasses, items \in ItemsOver(KeyAtoms, ValueAtoms) :
         GrowTo(MaxHeap, as_partialplus(heap, DictV(0, cls, items)), DictV(0, cls, items))

\* variable('x', int, default=7)
BuildVariable ==
    /\ BuildingForEval
    /\ GrowTo(MaxHeap, variable(heap, StrV("x"), ClassV("int"), IntV(7)), StrV("x"))

\* p[item]
GetItem ==
    /\ BuildingForEval
    /\ \E n \in Indexable, item \in Indexes \cup HandleRefs :
         GrowTo(MaxHeap, __getitem__(heap, n, item), item)

\* the operands of the operators: ints, each as a Literal and as the call
\* int(n), and a tuple to index
Numbers == {-3, 2, 3}
Operands ==
    {IntV(n) : n \in Numbers} \cup {PartialV("int", <<IntV(n)>>, <<>>) : n \in Numbers}
        \cup {TupleV(0, <<IntV(4), IntV(5), IntV(6), IntV(7)>>)}

\* as_partialplus(n), as_partialplus(partial(int, n)), as_partialplus((4, 5, 6, 7))
BuildOperand ==
    /\ BuildingForEval
    /\ \E x \in Operands : GrowTo(MaxHeap, as_partialplus(heap, x), x)

\* the handles of the number nodes
NumberHandles ==
    {handles[i] : i \in {j \in 1..Len(handles) : given[j] \in Operands /\ given[j].kind # "tuple"}}

\* a + b, a - b, ..., a >= b on two number nodes, t[a] on a tuple node, and
\* -a, +a, abs(a), ~a on a number node: the expression builds a node, or it
\* gives a value that is no node or raises
UseOperator ==
    /\ BuildingForEval
    /\ \E method \in DOMAIN BinaryMethods \cup {"__getitem__"} \cup DOMAIN UnaryMethods :
       \E self \in IF method = "__getitem__"
                   THEN {handles[i] : i \in {j \in 1..Len(handles) : given[j].kind = "tuple"}}
                   ELSE NumberHandles :
       \E other \in IF method \in DOMAIN UnaryMethods THEN {self} ELSE NumberHandles :
       \E before \in BOOLEAN :
         LET r == IF method \in DOMAIN UnaryMethods THEN unary_operator(heap, method, self)
                  ELSE binary_operator(heap, method, self, other, before)
             x == [kind |-> "operator", s |-> method,
                   elems |-> IF method \in DOMAIN UnaryMethods THEN <<NodeRef(self)>>
                             ELSE <<NodeRef(self), NodeRef(other)>>]
         IN IF r.node # NoParent THEN GrowTo(MaxHeap, r, x)
            ELSE /\ pc' = "done"
                 /\ op' = "operator"
                 /\ raised' = r.err
                 /\ result' = [root |-> NoParent, expr |-> x, val |-> r.val]
                 /\ UNCHANGED <<heap, handles, given, nops, helper, topo, out, env>>

\* x = variable('x', int, default=7); choice(x, alt, ...): an alternative is
\* a pair (key, value) whose value may be a deferred call, a call on x or x
\* itself, or it is no pair: a number, a one-element tuple, a list
BuildChoice ==
    /\ BuildingForEval
    /\ handles = <<>>
    /\ LET x == variable(heap, StrV("x"), ClassV("int"), IntV(7))
           values == {IntV(1), PartialV("dont_eval", <<>>, <<>>), NodeRef(x.node),
                      PartialV("f", <<NodeRef(x.node)>>, <<>>)}
           pairs == {TupleV(0, <<k, v>>) : k \in {StrV("a"), StrV("b")}, v \in values}
           others == {IntV(1), TupleV(0, <<StrV("a")>>), ListV(0, <<StrV("a"), IntV(1)>>)}
       IN \E args \in SeqsOver(pairs \cup others, 1..MaxLen) :
            LET r == choice(x.heap, NodeRef(x.node), args)
                c == [kind |-> "choice", elems |-> args]
            IN IF r.node # NoParent THEN GrowTo(2 * MaxHeap, r, c)
               ELSE /\ pc' = "done"
                    /\ op' = "choice"
                    /\ raised' = r.err
                    /\ result' = [root |-> NoParent, expr |-> c, val |-> NoneV]
                    /\ UNCHANGED <<heap, handles, given, nops, helper, topo, out, env>>

\* evaluate(p, **kwargs) on the node the last builder operation returned
Evaluate ==
    /\ pc = "build"
    /\ handles # <<>>
    /\ \E e \in Envs :
         LET p == handles[Len(handles)]
             st == evaluate(heap, p, e)
         IN /\ result' = [root |-> p, st |-> st]
            /\ env' = e
            /\ raised' = st.err
    /\ op' = "evaluate"
    /\ pc' = "done"
    /\ UNCHANGED <<heap, handles, given, nops, helper, topo, out>>

\* the keyword arguments of a call whose parameters are bound: at most two,
\* in the order the keywords dict iterates
KeywordArgs ==
    {k \in SeqsOver([name : {"a", "b", "u", "x"}, val : {IntV(7)}], 0..2) :
        \A i, j \in 1..Len(k) : k[i].name = k[j].name => i = j}

\* partial(f, *args, **kwargs) on a function with a signature
BuildBound ==
    /\ BuildingForEval
    /\ handles = <<>>
    /\ \E f \in DOMAIN FunctionCode, a \in SeqsOver({IntV(0), IntV(1)}, 0..MaxPos),
          k \in KeywordArgs :
         GrowTo(MaxHeap, partial(heap, f, a, k), PartialV(f, a, k))

\* p.arg on the node the last builder operation returned
Arg ==
    /\ pc = "build"
    /\ handles # <<>>
    /\ LET p == handles[Len(handles)]
           b == _param_assignment(heap, p)
       IN /\ result' = [root |-> p, binding |-> b.binding, errval |-> b.errval]
          /\ raised' = b.err
    /\ op' = "arg"
    /\ pc' = "done"
    /\ UNCHANGED <<heap, handles, given, nops, helper, topo, out, env>>

\* parameter binding
NextBind ==
    \/ BuildBound
    \/ Arg

SpecBind == Init /\ [][NextBind]_vars

\* proxy_to_partialplus(x) on a hierarchy x that refers to two objects a and
\* b, which may be one and the same object: the list [a, b], the list
\* [{'k': a}, b] and the Proxy f(a, k=b).  a and b are a Proxy, a
\* do-not-recurse Proxy, a list or a dict, each under one of two identities
Load ==
    /\ BuildingForEval
    /\ handles = <<>>
    /\ LET Proxy(id, f, a, k) ==
               [kind |-> "proxy", id |-> id, pfunc |-> f, pargs |-> a, pkeywords |-> k,
                src |-> StrV("src")]
           Objects ==
               UNION {{Proxy(i, "f", <<IntV(1)>>, <<>>),
                       Proxy(i + 2, "do_not_recurse", <<>>,
                             <<[name |-> "value", val |-> IntV(1)]>>),
                       ListV(i + 4, <<IntV(1), StrV("a")>>),
                       DictV(i + 6, "dict", <<[key |-> StrV("a"), val |-> IntV(1)]>>)}
                      : i \in 1..2}
       IN \E a \in Objects, b \in Objects :
          \E x \in {ListV(9, <<a, b>>),
                    ListV(9, <<DictV(10, "dict", <<[key |-> StrV("k"), val |-> a]>>), b>>),
                    Proxy(9, "f", <<a>>, <<[name |-> "k", val |-> b]>>)} :
            GrowTo(MaxHeap, proxy_to_partialplus(heap, <<>>, x), x)

\* conversion of plain values and of parsed hierarchies, and a choice
NextRound ==
    \/ ConvertPlain
    \/ Load
    \/ BuildChoice
    \/ Evaluate

SpecRound == Init /\ [][NextRound]_vars

\* sequences, deferred calls and indexing
NextSeq ==
    \/ BuildCall
    \/ BuildSeq
    \/ GetItem
    \/ Evaluate

SpecSeq == Init /\ [][NextSeq]_vars

\* mappings, variables and indexing
NextMap ==
    \/ BuildVariable
    \/ BuildDict
    \/ GetItem
    \/ Evaluate

SpecMap == Init /\ [][NextMap]_vars

\* variables inside sequences and mappings
NextVar ==
    \/ BuildVariable
    \/ BuildSeq
    \/ BuildDict
    \/ Evaluate

SpecVar == Init /\ [][NextVar]_vars

\* as_partialplus(x) on a list, a tuple or an instance of a subclass of list
\* whose elements are ints, lists, instances of a subclass of tuple and nodes
ConvertSeq ==
    /\ BuildingForEval
    /\ \E e \in SeqsOver({IntV(1), ListV(0, <<IntV(1)>>), InstanceV("tuple", <<IntV(1)>>)}
                          \cup HandleRefs, 0..MaxLen) :
       \E x \in {ListV(0, e), TupleV(0, e), InstanceV("list", e)} :
         GrowTo(MaxHeap, as_partialplus(heap, x), x)

\* conversions of sequences over nodes built before
NextConvert ==
    \/ BuildOperand
    \/ ConvertSeq

SpecConvert == Init /\ [][NextConvert]_vars

\* p.append_arg(arg) on a node p handed out before, arg being a node or an
\* int: append_arg stores the object it is given
AppendValue ==
    /\ BuildingForEval
    /\ \E n \in Indexable, arg \in {IntV(1)} \cup HandleRefs :
         LET r == IF arg.kind = "node" THEN [heap |-> heap, node |-> arg.ref]
                  ELSE Alloc(heap, Object(arg))
         IN /\ Len(r.heap) <= MaxHeap
            /\ Mutate(append_arg(r.heap, n, r.node))

\* the construction operations, in any order
NextBuild ==
    \/ BuildOperand
    \/ BuildVariable
    \/ BuildCall
    \/ UseOperator
    \/ BuildChoice
    \/ AppendValue

SpecBuild == Init /\ [][NextBuild]_vars

\* evaluate(p, **kwargs) once more, on any node handed out, after a call of
\* evaluate returned or raised; out keeps the calls made before
EvaluateAgain ==
    /\ pc = "done"
    /\ op = "evaluate"
    /\ Len(out) + 1 < MaxCalls
    /\ \E e \in Envs, i \in 1..Len(handles) :
         LET st == evaluate(heap, handles[i], e)
         IN /\ result' = [root |-> handles[i], st |-> st]
            /\ env' = e
            /\ raised' = st.err
    /\ out' = Append(out, [root |-> result.root, env |-> env, st |-> result.st,
                           heap |-> heap])
    /\ UNCHANGED <<heap, handles, given, nops, pc, op, helper, topo>>

\* calls of evaluate, one after the other, on a graph of variables and calls
NextAgain ==
    \/ BuildVariable
    \/ BuildCall
    \/ Evaluate
    \/ EvaluateAgain

SpecAgain == Init /\ [][NextAgain]_vars

\* p.clone() on a node handed out before; result keeps the graph as it was
Clone ==
    /\ pc = "build"
    /\ \E i \in 1..Len(handles) :
         LET r == clone(heap, handles[i])
         IN /\ heap' = r.heap
            /\ raised' = r.err
            /\ result' = [root |-> handles[i], node |-> r.node, bindings |-> r.bindings,
                          before |-> heap]
    /\ op' = "clone"
    /\ pc' = "done"
    /\ UNCHANGED <<handles, given, nops, helper, topo, out, env>>

\* operator expressions over number nodes, then evaluate or clone
NextOperator ==
    \/ BuildOperand
    \/ UseOperator
    \/ Evaluate
    \/ Clone

SpecOperator == Init /\ [][NextOperator]_vars


----------------------------------------------------------------------------
(* Properties of evaluate *)

Evaluated == op = "evaluate"
EvalOk == Evaluated /\ result.st.err = "none"
Root == result.root
WasEvaluated(n) == \E i \in 1..Len(result.st.evald) : result.st.evald[i] = n
CallsFor(n) == {i \in 1..Len(result.st.calls) : result.st.calls[i].node = n}
LastGiven == given[Len(given)]

\* a and b are containers of the same kinds, level by level
RECURSIVE SameKinds(_, _)
SameKinds(a, b) ==
    /\ a.kind = b.kind
    /\ CASE a.kind \in {"list", "tuple"} ->
              /\ Len(a.elems) = Len(b.elems)
              /\ \A i \in 1..Len(a.elems) : SameKinds(a.elems[i], b.elems[i])
         [] a.kind = "dict" ->
              /\ a.cls = b.cls
              /\ Len(a.items) = Len(b.items)
              /\ \A i \in 1..Len(a.items) : \E j \in 1..Len(b.items) :
                    /\ PyEq(a.items[i].key, b.items[j].key)
                    /\ SameKinds(a.items[i].key, b.items[j].key)
                    /\ SameKinds(a.items[i].val, b.items[j].val)
         [] OTHER -> TRUE

\* C4: evaluate(as_partialplus(x)) of a nesting x of scalars, lists, tuples
\* and plain or ordered mappings returns a value equal to x in which every
\* container has the kind, and every mapping the class, it has in x
C4_RoundTrip ==
    (Evaluated /\ LastGiven \in PlainValues) =>
        /\ EvalOk
        /\ PyEq(result.st.val, LastGiven)
        /\ SameKinds(result.st.val, LastGiven)

\* a tuple that holds a list and an ordered mapping of two pairs came back
C4_Witness ==
    /\ EvalOk
    /\ LastGiven.kind = "tuple"
    /\ Len(LastGiven.elems) = 2
    /\ LastGiven.elems[1].kind = "list"
    /\ LastGiven.elems[2].kind = "dict"
    /\ LastGiven.elems[2].cls = "OrderedDict"
    /\ Len(LastGiven.elems[2].items) = 2
    /\ result.st.val.elems[2].cls = "OrderedDict"
    /\ PyEq(result.st.val, LastGiven)

\* step 5 of the evaluator applies to n: a PartialPlus that is neither a
\* variable node nor a get-item on a sequence or mapping constructor
GeneralApply(n) ==
    /\ heap[n].kind = "PartialPlus"
    /\ ~is_variable_node(heap[n])
    /\ ~(heap[n].func = "getitem" /\ Len(heap[n].args) = 2 /\ heap[n].keywords = <<>>
           /\ \/ is_sequence_node(heap[heap[n].args[1]])
              \/ is_pos_args_node(heap[heap[n].args[1]]))

\* the argument positions of logged calls whose node is n
ArgPositions(n) ==
    {<<c, i>> \in (1..Len(result.st.calls)) \X (1..MaxLen) :
        /\ i <= Len(result.st.calls[c].argnodes)
        /\ result.st.calls[c].argnodes[i] = n}

\* the keyword positions of logged calls whose node is n
KwPositions(n) ==
    {<<c, j>> \in (1..Len(result.st.calls)) \X (1..MaxLen) :
        /\ j <= Len(result.st.calls[c].kw)
        /\ result.st.calls[c].func = heap[result.st.calls[c].node].func
        /\ j <= Len(heap[result.st.calls[c].node].keywords)
        /\ heap[result.st.calls[c].node].keywords[j].node = n}

\* C5: within one evaluate call the function of a general Apply node is
\* invoked at most once, and every argument, keyword value or result that
\* stands for the node is the one object that invocation returned
C5_SharedApplyOnce ==
    Evaluated =>
        \A n \in Nodes(heap) : GeneralApply(n) =>
            /\ Cardinality(CallsFor(n)) <= 1
            /\ \A pos \in ArgPositions(n) :
                  /\ n \in DOMAIN result.st.memo
                  /\ result.st.calls[pos[1]].args[pos[2]] = result.st.memo[n]
            /\ \A pos \in KwPositions(n) :
                  /\ n \in DOMAIN result.st.memo
                  /\ result.st.calls[pos[1]].kw[pos[2]].val = result.st.memo[n]
            /\ (EvalOk /\ Root = n) =>
                  /\ n \in DOMAIN result.st.memo
                  /\ result.st.val = result.st.memo[n]

\* a call of f that two argument positions and a keyword refer to was made
\* once, and all three received its object
C5_Witness ==
    /\ EvalOk
    /\ \E n \in Nodes(heap) :
         /\ GeneralApply(n)
         /\ heap[n].func = "f"
         /\ Cardinality(CallsFor(n)) = 1
         /\ Cardinality(ArgPositions(n)) >= 2
         /\ KwPositions(n) # {}
         /\ result.st.memo[n].kind = "obj"


\* g is a get-item node over a list or tuple constructor
SequenceIndexing(g) ==
    /\ heap[g].func = "getitem"
    /\ Len(heap[g].args) = 2
    /\ heap[g].keywords = <<>>
    /\ is_sequence_node(heap[heap[g].args[1]])

Container(g) == heap[heap[g].args[1]]
IndexNode(g) == heap[g].args[2]
IndexValue(g) == result.st.memo[IndexNode(g)]

\* the root is a get-item node over a sequence whose index evaluated to kind
\* k and selects without an IndexError or a ValueError
RootIndexes(k) ==
    /\ Evaluated
    /\ SequenceIndexing(Root)
    /\ IndexNode(Root) \in DOMAIN result.st.memo
    /\ IndexValue(Root).kind = k
    /\ SeqIndexError(Len(Container(Root).args), IndexValue(Root)) = "none"

\* the element nodes the index of the root selects, in order
Selected == Pick(Container(Root).args,
                 SeqIndexPositions(Len(Container(Root).args), IndexValue(Root)))

\* the nodes the index node or a selected element node leads to
Needed == UNION {Reachable(heap, n) : n \in {IndexNode(Root)} \cup Range(Selected)}

SelectedValueReturned ==
    EvalOk => /\ Selected[1] \in DOMAIN result.st.memo
              /\ result.st.val = result.st.memo[Selected[1]]

\* C6 as stated: an integer index returns the value of the selected element
\* node, and no other element node of the container is evaluated
C6_NoOtherElementEvaluated ==
    RootIndexes("int") =>
        /\ SelectedValueReturned
        /\ \A m \in Range(Container(Root).args) \ {Selected[1]} : ~WasEvaluated(m)

\* C6: an integer index returns the value of the selected element node, and
\* nothing is evaluated but the get-item node, the index node, the selected
\* element node and what these two lead to
C6_OnlyNeededEvaluated ==
    RootIndexes("int") =>
        /\ SelectedValueReturned
        /\ \A m \in Nodes(heap) : WasEvaluated(m) => m = Root \/ m \in Needed

\* the second of two elements was returned and the first, a failing call,
\* was left alone
C6_Witness ==
    /\ RootIndexes("int")
    /\ EvalOk
    /\ Len(Container(Root).args) = 2
    /\ Selected[1] = Container(Root).args[2]
    /\ heap[Container(Root).args[1]].func = "dont_eval"
    /\ ~WasEvaluated(Container(Root).args[1])

\* C7: a slice index returns the values of the selected element nodes, in
\* order, in a container of the constructor's kind, and no element node
\* outside the slice is evaluated unless something selected leads to it
C7_SliceSelects ==
    RootIndexes("slice") =>
        /\ EvalOk =>
              /\ result.st.val.kind = (IF is_list_node(Container(Root)) THEN "list" ELSE "tuple")
              /\ Len(result.st.val.elems) = Len(Selected)
              /\ \A i \in 1..Len(Selected) :
                    /\ Selected[i] \in DOMAIN result.st.memo
                    /\ result.st.val.elems[i] = result.st.memo[Selected[i]]
        /\ \A m \in Range(Container(Root).args) : WasEvaluated(m) => m \in Needed


\* n is a variable node whose name keyword is a Literal string
VariableNode(n) ==
    /\ heap[n].kind = "PartialPlus"
    /\ is_variable_node(heap[n])
    /\ "name" \in KwNames(heap[n].keywords)
    /\ is_literal(heap[heap[n].keywords[KwGet(heap[n].keywords, "name")].node])
    /\ heap[heap[n].keywords[KwGet(heap[n].keywords, "name")].node].value.kind = "str"

DeclaredName(n) == heap[heap[n].keywords[KwGet(heap[n].keywords, "name")].node].value
Bound(x) == \E i \in 1..Len(env) : env[i].name = x.s
EnvValue(x) == env[CHOOSE i \in 1..Len(env) : env[i].name = x.s].val

\* the value node n stands for once evaluate has returned
Valued(n) == IF VariableNode(n) THEN Bound(DeclaredName(n)) ELSE n \in DOMAIN result.st.memo
ValueOf(n) == IF VariableNode(n) THEN EnvValue(DeclaredName(n)) ELSE result.st.memo[n]

\* g is a get-item node over a mapping constructor
MappingIndexing(g) ==
    /\ heap[g].func = "getitem"
    /\ Len(heap[g].args) = 2
    /\ heap[g].keywords = <<>>
    /\ is_dict_like_node(heap, heap[heap[g].args[1]])

Pairs(g) == Range(Tail(Container(g).args))
KeyNode(p) == heap[p].args[1]
ValueNode(p) == heap[p].args[2]

\* the pairs of the root's mapping whose key node is a Literal equal to k
LiteralKeyed(k) ==
    {p \in Pairs(Root) : is_literal(heap[KeyNode(p)]) /\ PyEq(heap[KeyNode(p)].value, k)}

\* C8: indexing a mapping constructor by a key that a literal-keyed pair
\* carries returns the value of that pair's value node, and the value node
\* of another pair is evaluated only if the index, a key or the selected
\* value leads to it
C8_MappingIndex ==
    ( /\ Evaluated
      /\ MappingIndexing(Root)
      /\ IndexNode(Root) \in DOMAIN result.st.memo
      /\ LiteralKeyed(IndexValue(Root)) # {} ) =>
        LET p == CHOOSE q \in LiteralKeyed(IndexValue(Root)) : TRUE
            led == UNION {Reachable(heap, n) :
                            n \in {IndexNode(Root), ValueNode(p)}
                                    \cup {KeyNode(q) : q \in Pairs(Root)}}
        IN /\ EvalOk => /\ Valued(ValueNode(p))
                        /\ result.st.val = ValueOf(ValueNode(p))
           /\ \A q \in Pairs(Root) \ {p} :
                 WasEvaluated(ValueNode(q)) => ValueNode(q) \in led

\* C9: a variable node evaluates to the value its name is bound to in the
\* keyword arguments of evaluate, as an element, a key or a value; with the
\* name unbound, evaluate raises a KeyError that names it and no call is
\* handed a value for the node
C9_VariableLookup ==
    Evaluated =>
        \A n \in Nodes(heap) : VariableNode(n) =>
            /\ Bound(DeclaredName(n)) =>
                  /\ \A pos \in ArgPositions(n) :
                        result.st.calls[pos[1]].args[pos[2]] = EnvValue(DeclaredName(n))
                  /\ Root = n => (EvalOk /\ result.st.val = EnvValue(DeclaredName(n)))
            /\ (~Bound(DeclaredName(n)) /\ WasEvaluated(n)) =>
                  /\ result.st.err = "KeyError"
                  /\ result.st.errval = DeclaredName(n)
                  /\ ArgPositions(n) = {}

\* one bound variable was evaluated as a list element, as a mapping key and
\* as a mapping value
C9_Witness ==
    /\ EvalOk
    /\ \E n \in Nodes(heap) :
         /\ VariableNode(n)
         /\ Bound(DeclaredName(n))
         /\ \E c, d \in 1..Len(result.st.calls) :
               /\ result.st.calls[c].func = "make_list"
               /\ n \in Range(result.st.calls[c].argnodes)
               /\ result.st.calls[d].func = "make_tuple"
               /\ result.st.calls[d].argnodes = <<n, n>>
               /\ result.st.calls[d].args = <<EnvValue(DeclaredName(n)), EnvValue(DeclaredName(n))>>


----------------------------------------------------------------------------
(* Properties of parameter binding *)

ArgTaken == op = "arg"
BoundNode == heap[result.root]
BoundCode == FunctionCode[BoundNode.func]
Declared == SubSeq(BoundCode.co_varnames, 1, BoundCode.co_argcount)
StarName == BoundCode.co_varnames[BoundCode.co_argcount + 1]
Overflow ==
    [i \in 1..(Len(BoundNode.args) - Clamp(BoundCode.co_argcount, 0, Len(BoundNode.args))) |->
        NodeRef(BoundNode.args[i + BoundCode.co_argcount])]

\* C10: the i-th positional argument node is bound to the i-th declared
\* parameter; the arguments beyond the declared parameters are bound in
\* order as a tuple (empty without overflow) to the *args parameter; without
\* a *args parameter an overflow raises TypeError and nothing is bound
C10_PositionalBinding ==
    ArgTaken =>
        /\ (Len(BoundNode.args) > BoundCode.co_argcount /\ ~BoundCode.co_varargs) =>
              (raised = "TypeError" /\ result.binding = <<>>)
        /\ ((Len(BoundNode.args) <= BoundCode.co_argcount \/ BoundCode.co_varargs)
              /\ BoundNode.keywords = <<>>) => raised = "none"
        /\ raised = "none" =>
              /\ \A i \in 1..Len(Declared) : i <= Len(BoundNode.args) =>
                    /\ Declared[i] \in DOMAIN result.binding
                    /\ result.binding[Declared[i]] = NodeRef(BoundNode.args[i])
              /\ BoundCode.co_varargs =>
                    /\ StarName \in DOMAIN result.binding
                    /\ result.binding[StarName] = TupleV(0, Overflow)

\* f(a, *u, **b) given three positional arguments bound the last two to u
C10_Witness ==
    /\ ArgTaken
    /\ raised = "none"
    /\ BoundNode.func = "f_star_kw"
    /\ Len(BoundNode.args) = 3
    /\ result.binding["a"] = NodeRef(BoundNode.args[1])
    /\ result.binding["u"] = TupleV(0, <<NodeRef(BoundNode.args[2]), NodeRef(BoundNode.args[3])>>)


KwSlotName ==
    BoundCode.co_varnames[BoundCode.co_argcount + (IF BoundCode.co_varargs THEN 1 ELSE 0) + 1]

\* the keywords whose name is no declared named parameter
Unmatched == {j \in 1..Len(BoundNode.keywords) : BoundNode.keywords[j].name \notin Range(Declared)}

\* a keyword names a declared parameter that a positional argument bound
NamesBoundParameter(j) ==
    \E i \in 1..Len(Declared) :
        /\ i <= Len(BoundNode.args)
        /\ BoundNode.keywords[j].name = Declared[i]

TooManyPositional == Len(BoundNode.args) > BoundCode.co_argcount /\ ~BoundCode.co_varargs

\* C11: a keyword whose name is no declared named parameter (the name of the
\* *args or of the **kwargs parameter included) is stored under its name in
\* the **kwargs mapping when the function has one; when it has none the
\* binding fails with TypeError and nothing is returned
C11_UnmatchedKeywords ==
    ArgTaken =>
        /\ ( /\ BoundCode.co_varkeywords
             /\ ~TooManyPositional
             /\ \A j \in 1..Len(BoundNode.keywords) : ~NamesBoundParameter(j) ) =>
                /\ raised = "none"
                /\ \A j \in Unmatched :
                      \E i \in 1..Len(result.binding[KwSlotName].items) :
                          result.binding[KwSlotName].items[i] =
                              [key |-> StrV(BoundNode.keywords[j].name),
                               val |-> NodeRef(BoundNode.keywords[j].node)]
        /\ (~BoundCode.co_varkeywords /\ Unmatched # {}) =>
                (raised = "TypeError" /\ result.binding = <<>>)


DuplicateMessage(name) == Message("Duplicate argument for parameter", name)

\* nothing but a keyword for a bound parameter is wrong with the arguments
OnlyDuplicates ==
    /\ ~TooManyPositional
    /\ \A j \in 1..Len(BoundNode.keywords) :
          \/ BoundNode.keywords[j].name \in Range(Declared)
          \/ /\ BoundCode.co_varkeywords
             /\ ~(BoundCode.co_varargs /\ BoundNode.keywords[j].name = StarName)

\* C12: when a keyword names a declared parameter that a positional argument
\* has bound, the binding fails with TypeError and nothing is returned; the
\* error is the duplicate-argument one, naming such a parameter, when nothing
\* else is wrong with the arguments
C12_DuplicateArgument ==
    (ArgTaken /\ \E j \in 1..Len(BoundNode.keywords) : NamesBoundParameter(j)) =>
        /\ raised = "TypeError"
        /\ result.binding = <<>>
        /\ OnlyDuplicates =>
              \E j \in 1..Len(BoundNode.keywords) :
                  /\ NamesBoundParameter(j)
                  /\ result.errval = DuplicateMessage(BoundNode.keywords[j].name)

\* f(a, b=None) given one positional argument and the keyword a
C12_Witness ==
    /\ ArgTaken
    /\ BoundNode.func = "f_ab"
    /\ Len(BoundNode.args) = 1
    /\ \E j \in 1..Len(BoundNode.keywords) : BoundNode.keywords[j].name = "a"
    /\ raised = "TypeError"
    /\ result.errval = DuplicateMessage("a")


\* what the i-th declared parameter is to be bound to
Expected(i) ==
    IF i <= Len(BoundNode.args) THEN NodeRef(BoundNode.args[i])
    ELSE IF Declared[i] \in KwNames(BoundNode.keywords)
    THEN NodeRef(BoundNode.keywords[KwGet(BoundNode.keywords, Declared[i])].node)
    ELSE IF i > Len(Declared) - Len(BoundCode.defaults)
    THEN Literal(BoundCode.defaults[i - (Len(Declared) - Len(BoundCode.defaults))])
    ELSE MissingArgument

\* C13: a successful binding has one entry for every declared parameter: the
\* node bound by position or by keyword, else a Literal of its default (the
\* defaults belong to the last parameters), else MissingArgument; a required
\* parameter without an argument does not make the binding fail
C13_DefaultsAndMissing ==
    ArgTaken =>
        /\ raised = "none" =>
              \A i \in 1..Len(Declared) :
                  /\ Declared[i] \in DOMAIN result.binding
                  /\ result.binding[Declared[i]] = Expected(i)
        /\ (BoundNode.args = <<>> /\ BoundNode.keywords = <<>>) => raised = "none"

\* f(a, b=None) given nothing: a is missing and b has its default
C13_Witness ==
    /\ ArgTaken
    /\ raised = "none"
    /\ BoundNode.func = "f_ab"
    /\ BoundNode.args = <<>>
    /\ BoundNode.keywords = <<>>
    /\ result.binding["a"] = MissingArgument
    /\ result.binding["b"] = Literal(NoneV)

----------------------------------------------------------------------------
(* Properties of the operators *)

\* the operator expression that built the node of handle i, and its operands
IsExpression(x, arity) == x.kind = "operator" /\ Len(x.elems) = arity
OperandNode(x, k) == x.elems[k].ref
\* the int an operand node stands for: Literal(n) or the call int(n)
OperandValue(n) ==
    IF is_literal(heap[n]) THEN heap[n].value.n ELSE heap[heap[n].args[1]].value.n
\* an operand node is as it was built
Intact(i) ==
    given[i] \in Operands /\ given[i].kind # "tuple" =>
        \/ given[i].kind = "int" /\ heap[handles[i]] = Literal(given[i])
        \/ /\ given[i].kind = "partial"
           /\ heap[handles[i]].func = "int"
           /\ Len(heap[handles[i]].args) = 1
           /\ heap[heap[handles[i]].args[1]] = Literal(given[i].pargs[1])

\* a op b on ints, for the operators + - * / % | ^ &
InfixValue ==
    [__add__ |-> [a, b \in Numbers |-> a + b],
     __sub__ |-> [a, b \in Numbers |-> a - b],
     __mul__ |-> [a, b \in Numbers |-> a * b],
     __div__ |-> [a, b \in Numbers |-> FloorDiv(a, b)],
     __mod__ |-> [a, b \in Numbers |-> a - b * FloorDiv(a, b)],
     __or__ |-> [a, b \in Numbers |-> Bitwise("or_", a, b)],
     __xor__ |-> [a, b \in Numbers |-> Bitwise("xor", a, b)],
     __and__ |-> [a, b \in Numbers |-> Bitwise("and_", a, b)]]

\* C14: a binary arithmetic, bitwise, comparison or item-access operator on
\* two nodes, each a Literal or an Apply, always yields a new Apply node whose
\* function is the operator's primitive and whose positional arguments are
\* the two operand nodes; the operand nodes stay as they were built; and
\* evaluating the node of + - * / % | ^ & on int-valued operands gives a op b
C14_BinaryOperator ==
    /\ ~(op = "operator" /\ IsExpression(result.expr, 2))
    /\ \A i \in 1..Len(handles) :
         /\ Intact(i)
         /\ IsExpression(given[i], 2) =>
              /\ heap[handles[i]].kind = "PartialPlus"
              /\ handles[i] \notin {OperandNode(given[i], 1), OperandNode(given[i], 2)}
              /\ heap[handles[i]].func =
                     (IF given[i].s = "__getitem__" THEN "getitem"
                      ELSE IF given[i].s = "__pow__" THEN "pow"
                      ELSE BinaryMethods[given[i].s])
              /\ heap[handles[i]].args =
                     <<OperandNode(given[i], 1), OperandNode(given[i], 2)>>
              /\ heap[handles[i]].keywords = <<>>
    /\ Evaluated /\ IsExpression(LastGiven, 2) /\ LastGiven.s \in DOMAIN InfixValue =>
         /\ EvalOk
         /\ result.st.val =
                IntV(InfixValue[LastGiven.s][OperandValue(OperandNode(LastGiven, 1)),
                                             OperandValue(OperandNode(LastGiven, 2))])

\* -a, +a, abs(a), ~a on ints
PrefixValue ==
    [__neg__ |-> [a \in Numbers |-> 0 - a],
     __pos__ |-> [a \in Numbers |-> a],
     __abs__ |-> [a \in Numbers |-> IF a < 0 THEN 0 - a ELSE a],
     __invert__ |-> [a \in Numbers |-> 0 - a - 1]]

\* C15: evaluating the node a unary operator builds on an Apply node a gives
\* the operator's primitive applied to the value of a: -evaluate(a),
\* +evaluate(a), abs(evaluate(a)), ~evaluate(a)
C15_UnaryOperator ==
    Evaluated /\ IsExpression(LastGiven, 1)
              /\ ~is_literal(heap[OperandNode(LastGiven, 1)]) =>
        /\ EvalOk
        /\ result.st.val = IntV(PrefixValue[LastGiven.s][OperandValue(OperandNode(LastGiven, 1))])

----------------------------------------------------------------------------
(* Properties of as_partialplus *)

\* node n is what as_partialplus makes of the value x: the node itself for a
\* node, the list or the tuple constructor over the converted elements for a
\* list or a tuple, a Literal holding x for any other value that is neither a
\* mapping nor a deferred call
RECURSIVE ConvertedTo(_, _)
ConvertedTo(x, n) ==
    CASE x.kind = "node" -> n = x.ref
      [] x.kind \in {"list", "tuple"} ->
            /\ heap[n].kind = "PartialPlus"
            /\ heap[n].func = (IF x.kind = "list" THEN "make_list" ELSE "make_tuple")
            /\ heap[n].keywords = <<>>
            /\ Len(heap[n].args) = Len(x.elems)
            /\ \A k \in 1..Len(x.elems) : ConvertedTo(x.elems[k], heap[n].args[k])
      [] x.kind \in {"dict", "partial"} -> heap[n].kind = "PartialPlus"
      [] OTHER -> heap[n] = Literal(x)

\* C16: a value whose type is exactly list (tuple) becomes an Apply of the
\* list (tuple) constructor with one child per element, the converted
\* elements in order; a value that is a node is the node itself; an instance
\* of a list or tuple subclass, like any other plain value, becomes a Literal
\* holding it
C16_ExactTypeDispatch ==
    \A i \in 1..Len(handles) :
        given[i].kind \in {"list", "tuple", "instance", "int"} => ConvertedTo(given[i], handles[i])

\* a list was converted whose elements are a node built before and an
\* instance of a tuple subclass, and so was an instance of a list subclass
\* that holds a node
C16_Witness ==
    /\ \E i \in 1..Len(handles) :
         /\ given[i].kind = "list"
         /\ Len(given[i].elems) = 2
         /\ given[i].elems[1].kind = "node"
         /\ given[i].elems[2].kind = "instance"
    /\ \E i \in 1..Len(handles) :
         /\ given[i].kind = "instance"
         /\ Len(given[i].elems) = 2
         /\ given[i].elems[1].kind = "node"
         /\ heap[handles[i]].kind = "Literal"

\* C17: a converted mapping is a mapping-constructor Apply whose first child
\* is a Literal holding the mapping's class and whose other children are
\* two-element tuple-constructor pair nodes, one per entry; every pair whose
\* key node is a Literal comes before every pair whose key node is computed
C17_LiteralKeysFirst ==
    \A i \in 1..Len(handles) : given[i].kind = "dict" =>
        LET node == heap[handles[i]]
        IN /\ is_pos_args_node(node)
           /\ node.keywords = <<>>
           /\ Len(node.args) = 1 + Len(given[i].items)
           /\ heap[node.args[1]] = Literal(ClassV(given[i].cls))
           /\ \A k \in 2..Len(node.args) :
                 /\ is_tuple_node(heap[node.args[k]])
                 /\ Len(heap[node.args[k]].args) = 2
           /\ \A j, k \in 2..Len(node.args) :
                 ( /\ is_literal(heap[KeyNode(node.args[j])])
                   /\ ~is_literal(heap[KeyNode(node.args[k])]) ) => j < k

\* C18: after any sequence of construction operations every positional
\* argument and every keyword value of every Apply node is a Node, a Literal
\* or an Apply
C18_ChildrenAreNodes ==
    \A n \in Nodes(heap) : heap[n].kind = "PartialPlus" =>
        /\ \A k \in 1..Len(heap[n].args) :
              heap[heap[n].args[k]].kind \in {"Literal", "PartialPlus"}
        /\ \A k \in 1..Len(heap[n].keywords) :
              heap[heap[n].keywords[k].node].kind \in {"Literal", "PartialPlus"}

----------------------------------------------------------------------------
(* Properties of failing calls *)

\* what the i-th call made during the evaluation did: returned or raised
Outcome(i) ==
    Call(result.st.calls[i].func, result.st.calls[i].args, result.st.calls[i].kw, i)

\* C19: when a function invoked during evaluate raises, it is the last call
\* evaluate makes, evaluate raises that same exception with the same value,
\* and returns no value in its place
C19_ExceptionPropagates ==
    Evaluated =>
        \A i \in 1..Len(result.st.calls) : Outcome(i).err # "none" =>
            /\ i = Len(result.st.calls)
            /\ result.st.err = Outcome(i).err
            /\ result.st.errval = Outcome(i).errval
            /\ result.st.val = NoneV
            /\ raised = Outcome(i).err

\* a call that failed below the root, after another call had returned
C19_Witness ==
    /\ Evaluated
    /\ Len(result.st.calls) >= 2
    /\ Outcome(Len(result.st.calls)).err = "AssertionError"
    /\ result.st.calls[Len(result.st.calls)].node # Root
    /\ raised = "AssertionError"

----------------------------------------------------------------------------
(* Properties of repeated calls of evaluate *)

\* what evaluate(root, **e) gives on the graph when nothing is remembered
Afresh(root, e) ==
    _evaluate(heap, [memo |-> <<>>, env |-> e, calls |-> <<>>, evald |-> <<>>,
                     val |-> NoneV, err |-> "none", errval |-> NoneV], root)

----------------------------------------------------------------------------
(* Properties of the loader *)

\* the hierarchy loaded, its two references a and b, and the nodes made of
\* them
Loaded == handles # <<>> /\ given[1].kind \in {"list", "proxy"} /\ given[1].id = 9
FirstRef ==
    IF given[1].kind = "proxy" THEN given[1].pargs[1]
    ELSE IF given[1].elems[1].id = 10 THEN given[1].elems[1].items[1].val
    ELSE given[1].elems[1]
SecondRef == IF given[1].kind = "proxy" THEN given[1].pkeywords[1].val ELSE given[1].elems[2]
FirstNode ==
    IF given[1].kind = "proxy" THEN heap[heap[handles[1]].args[1]].args[1]
    ELSE IF given[1].elems[1].id = 10
    THEN heap[heap[heap[handles[1]].args[1]].args[2]].args[2]
    ELSE heap[handles[1]].args[1]
SecondNode ==
    IF given[1].kind = "proxy" THEN heap[heap[handles[1]].args[1]].keywords[1].node
    ELSE heap[handles[1]].args[2]

\* C21: when two positions of the hierarchy handed to proxy_to_partialplus
\* refer to one and the same Proxy, do-not-recurse Proxy, list or dict, the
\* two positions of the graph refer to one and the same node
C21_SharedObjectSharedNode ==
    (Loaded /\ FirstRef.id = SecondRef.id) => FirstNode = SecondNode

\* C21, as the loader does it: two positions that refer to one and the same
\* Proxy with a callable to recurse into refer to one and the same node in
\* the graph; every reference to a do-not-recurse Proxy, a list or a dict
\* gets a node of its own, as do references to two different objects
C21_SharedProxySharedNode ==
    Loaded =>
        (FirstNode = SecondNode <=>
            /\ FirstRef.id = SecondRef.id
            /\ FirstRef.kind = "proxy"
            /\ FirstRef.pfunc # "do_not_recurse")

\* [{'k': proxy}, proxy] was loaded, for one Proxy that calls f
C21_Witness ==
    /\ Loaded
    /\ given[1].kind = "list"
    /\ given[1].elems[1].kind = "dict"
    /\ FirstRef.id = SecondRef.id
    /\ FirstRef.kind = "proxy"
    /\ FirstRef.pfunc = "f"
    /\ FirstNode = SecondNode
    /\ heap[heap[FirstNode].args[1]].func = "f"

----------------------------------------------------------------------------
(* Properties of choice *)

\* a choice node was evaluated: its get-item node, the variable it indexes
\* by, its alternatives as given and as pair nodes, and the first one whose
\* key equals the value bound to the variable (0 when there is none)
ChoiceEvaluated == Evaluated /\ LastGiven.kind = "choice"
ChoiceGetter == heap[Root].args[1]
ChoiceVar == IndexNode(ChoiceGetter)
IsPair(alt) == alt.kind = "tuple" /\ Len(alt.elems) = 2
Alternative(j) == Container(ChoiceGetter).args[j + 1]
Chosen ==
    FirstEqual([j \in 1..Len(LastGiven.elems) |-> LastGiven.elems[j].elems[1]],
               EnvValue(DeclaredName(ChoiceVar)))
ChoiceRejects ==
    /\ op = "choice" =>
          /\ raised = "ValueError"
          /\ \E j \in 1..Len(result.expr.elems) : ~IsPair(result.expr.elems[j])
    /\ \A i \in 1..Len(given) : given[i].kind = "choice" =>
          \A j \in 1..Len(given[i].elems) : IsPair(given[i].elems[j])
ChosenReturned ==
    /\ EvalOk \/ heap[ValueNode(Alternative(Chosen))].func = "dont_eval"
    /\ EvalOk => result.st.val = ValueOf(ValueNode(Alternative(Chosen)))

\* C22: evaluating choice(var, (k1, v1), ..., (kn, vn)) with var bound to ki
\* returns vi and evaluates none of the vj with j # i; a binding that equals
\* no ki fails with a KeyError; choice raises ValueError at construction for
\* an alternative that is not a two-element tuple
C22_ChoiceIsLazy ==
    /\ ChoiceRejects
    /\ (ChoiceEvaluated /\ Bound(DeclaredName(ChoiceVar))) =>
          IF Chosen = 0
          THEN /\ result.st.err = "KeyError"
               /\ result.st.errval = EnvValue(DeclaredName(ChoiceVar))
          ELSE /\ ChosenReturned
               /\ \A j \in 1..Len(LastGiven.elems) : j # Chosen =>
                     ~WasEvaluated(ValueNode(Alternative(j)))

\* C22, as evaluate does it: the first alternative whose key equals the
\* binding is the one returned, and the value node of another alternative is
\* evaluated only when the variable or the chosen value leads to it
C22_ChoiceEvaluatesNeeded ==
    /\ ChoiceRejects
    /\ (ChoiceEvaluated /\ Bound(DeclaredName(ChoiceVar))) =>
          IF Chosen = 0
          THEN /\ result.st.err = "KeyError"
               /\ result.st.errval = EnvValue(DeclaredName(ChoiceVar))
          ELSE /\ ChosenReturned
               /\ \A j \in 1..Len(LastGiven.elems) : j # Chosen =>
                     (WasEvaluated(ValueNode(Alternative(j))) =>
                         ValueNode(Alternative(j)) \in
                             Reachable(heap, ChoiceVar)
                                 \cup Reachable(heap, ValueNode(Alternative(Chosen))))

\* choice(x, ('b', dont_eval()), ('a', 1)) with x = 'a' gave 1 and left the
\* failing call alone
C22_Witness ==
    /\ ChoiceEvaluated
    /\ EvalOk
    /\ Len(LastGiven.elems) = 2
    /\ Chosen = 2
    /\ result.st.val = IntV(1)
    /\ heap[ValueNode(Alternative(1))].func = "dont_eval"
    /\ ~WasEvaluated(ValueNode(Alternative(1)))

----------------------------------------------------------------------------
(* Properties of the memo table *)

\* two nodes are structurally identical: Literals of equal values, or calls
\* of one function on structurally identical arguments and keywords
RECURSIVE SameStructure(_, _)
SameStructure(m, n) ==
    \/ m = n
    \/ /\ is_literal(heap[m]) /\ is_literal(heap[n])
       /\ heap[m].value = heap[n].value
    \/ /\ ~is_literal(heap[m]) /\ ~is_literal(heap[n])
       /\ heap[m].func = heap[n].func
       /\ Len(heap[m].args) = Len(heap[n].args)
       /\ \A i \in 1..Len(heap[m].args) : SameStructure(heap[m].args[i], heap[n].args[i])
       /\ Len(heap[m].keywords) = Len(heap[n].keywords)
       /\ \A i \in 1..Len(heap[m].keywords) :
             /\ heap[m].keywords[i].name = heap[n].keywords[i].name
             /\ SameStructure(heap[m].keywords[i].node, heap[n].keywords[i].node)
CallsOf(n) == {c \in 1..Len(result.st.calls) : result.st.calls[c].node = n}
Twins ==
    {pair \in Nodes(heap) \X Nodes(heap) :
        /\ pair[1] # pair[2]
        /\ WasEvaluated(pair[1]) /\ WasEvaluated(pair[2])
        /\ SameStructure(pair[1], pair[2])}

\* C23: within one evaluate call the memo table holds one entry for each
\* node evaluated and none for a node that only looks like one, so two
\* separately built nodes that are structurally identical each have a memo
\* entry of their own; when the two are calls the function was invoked once
\* for each and the two results are distinct objects
C23_MemoKeyedByIdentity ==
    EvalOk =>
        /\ DOMAIN result.st.memo = {n \in Nodes(heap) : WasEvaluated(n)}
        /\ \A pair \in Twins :
              \A c \in CallsOf(pair[1]) :
                  /\ CallsOf(pair[1]) = {c}
                  /\ Cardinality(CallsOf(pair[2])) = 1
                  /\ result.st.memo[pair[1]] # result.st.memo[pair[2]]

\* [(1,), (1,)] of two separately built tuples was evaluated: two calls of
\* make_tuple, each on a Literal 1 of its own, gave two tuples
C23_Witness ==
    /\ EvalOk
    /\ \E pair \in Twins :
         /\ heap[pair[1]].func = "make_tuple"
         /\ Len(heap[pair[1]].args) = 1
         /\ is_literal(heap[heap[pair[1]].args[1]])
         /\ heap[pair[1]].args[1] # heap[pair[2]].args[1]
         /\ heap[pair[1]].args[1] \in DOMAIN result.st.memo
         /\ heap[pair[2]].args[1] \in DOMAIN result.st.memo
         /\ Cardinality(CallsOf(pair[1])) = 1
         /\ Cardinality(CallsOf(pair[2])) = 1
         /\ result.st.memo[pair[1]] # result.st.memo[pair[2]]

\* C24: once a variable node whose name is bound has been evaluated, the
\* memo table of the call holds the bound value under that node, and a later
\* reference to the node is answered from the memo: the node is resolved
\* once
C24_VariableMemoized ==
    Evaluated =>
        \A n \in Nodes(heap) :
            (VariableNode(n) /\ Bound(DeclaredName(n)) /\ WasEvaluated(n)) =>
                /\ n \in DOMAIN result.st.memo
                /\ result.st.memo[n] = EnvValue(DeclaredName(n))
                /\ Cardinality({i \in 1..Len(result.st.evald) : result.st.evald[i] = n}) = 1

----------------------------------------------------------------------------
(* Properties of lazy indexing of a mapping *)

\* the root indexes a mapping constructor of pairs and its index was
\* evaluated to a value the memo table holds; the key nodes in stored
\* order; where a node was first evaluated; the first pair whose Literal
\* key equals the index (0 when there is none)
KeyedLookup ==
    /\ Evaluated
    /\ MappingIndexing(Root)
    /\ IndexNode(Root) \in DOMAIN result.st.memo
    /\ \A q \in Pairs(Root) : is_tuple_node(heap[q]) /\ Len(heap[q].args) = 2
StoredKeys == [j \in 1..(Len(Container(Root).args) - 1) |-> KeyNode(Container(Root).args[j + 1])]
FirstEvaluated(n) == CHOOSE i \in 1..Len(result.st.evald) :
                        /\ result.st.evald[i] = n
                        /\ \A j \in 1..(i - 1) : result.st.evald[j] # n
LiteralMatch ==
    IF \E j \in DOMAIN StoredKeys :
          is_literal(heap[StoredKeys[j]]) /\ PyEq(heap[StoredKeys[j]].value, IndexValue(Root))
    THEN CHOOSE j \in DOMAIN StoredKeys :
            /\ is_literal(heap[StoredKeys[j]]) /\ PyEq(heap[StoredKeys[j]].value, IndexValue(Root))
            /\ \A i \in 1..(j - 1) :
                  ~(is_literal(heap[StoredKeys[i]])
                        /\ PyEq(heap[StoredKeys[i]].value, IndexValue(Root)))
    ELSE 0
LedTo(roots) == UNION {Reachable(heap, n) : n \in roots}

\* C25: lazy indexing of a mapping constructor evaluates the key nodes in
\* stored order and only until a key equals the index: when a Literal key
\* matches, no key stored after it and no computed key is evaluated (but
\* for what the index or the selected value needs anyway)
C25_KeysOnlyUntilMatch ==
    (KeyedLookup /\ LiteralMatch # 0) =>
        \A j \in DOMAIN StoredKeys :
            (j > LiteralMatch \/ ~is_literal(heap[StoredKeys[j]])) =>
                \/ ~WasEvaluated(StoredKeys[j])
                \/ StoredKeys[j] \in LedTo({IndexNode(Root),
                                           ValueNode(Container(Root).args[LiteralMatch + 1])})

\* C25, as _handle_indexing does it: every key node of the mapping is
\* evaluated, in stored order, before a pair is selected, so a key that
\* raises makes the lookup raise whichever key matches
C25_EveryKeyEvaluated ==
    KeyedLookup =>
        /\ EvalOk => \A j \in DOMAIN StoredKeys : WasEvaluated(StoredKeys[j])
        /\ \A j, k \in DOMAIN StoredKeys :
              (j < k /\ WasEvaluated(StoredKeys[k])) =>
                  \/ /\ WasEvaluated(StoredKeys[j])
                     /\ FirstEvaluated(StoredKeys[j]) < FirstEvaluated(StoredKeys[k])
                  \/ StoredKeys[k] \in
                        LedTo({IndexNode(Root)} \cup {StoredKeys[i] : i \in 1..(j - 1)})

\* {'a': 1, x: 1}['a'] gave 1, and the variable x, the key of the second
\* pair, was evaluated after the key 'a'
C25_Witness ==
    /\ KeyedLookup
    /\ EvalOk
    /\ Len(StoredKeys) = 2
    /\ LiteralMatch = 1
    /\ VariableNode(StoredKeys[2])
    /\ StoredKeys[2] \notin LedTo({IndexNode(Root), ValueNode(Container(Root).args[2])})
    /\ WasEvaluated(StoredKeys[2])
    /\ FirstEvaluated(StoredKeys[1]) < FirstEvaluated(StoredKeys[2])

\* C26: a get-item node over a mapping constructor none of whose keys equals
\* the evaluated index raises a KeyError that carries the index, whatever
\* the number of pairs, zero included
C26_MissingKeyRaisesKeyError ==
    ( /\ KeyedLookup
      /\ \A j \in DOMAIN StoredKeys :
            /\ Valued(StoredKeys[j])
            /\ ~PyEq(ValueOf(StoredKeys[j]), IndexValue(Root)) ) =>
        /\ result.st.err = "KeyError"
        /\ result.st.errval = IndexValue(Root)

----------------------------------------------------------------------------
(* Termination of topological_sort *)

\* a queued candidate all of whose recorded parents have been emitted
ReadyCandidate ==
    \E i \in 1..Len(topo.candidates) :
        topo.dependencies[topo.candidates[i]] \subseteq topo.visited

\* C27: topological_sort ends on every acyclic graph: while its queue is not
\* empty some queued node has all of its recorded parents emitted, and a
\* sort that was begun on an acyclic graph returns
C27_TopologicalSortTerminates ==
    /\ []((pc = "topo" /\ topo.candidates # <<>>) => ReadyCandidate)
    /\ (op = "topological_sort" /\ pc = "traverse" /\ Acyclic) ~> (TopoDone /\ raised = "none")

\* the sort of an acyclic graph with a shared node returned after a candidate
\* had to wait in the queue
C27_Witness ==
    TopoDone /\ Acyclic /\ SharedNode /\ raised = "none" /\ out # helper.yielded

----------------------------------------------------------------------------
(* Cycle detection *)

\* the helper is about to process a frame
AtFrame == pc = "traverse" /\ Len(helper.to_visit) > 0

\* C28: cycle detection has no false positives: on an acyclic graph, with
\* nodes shared between parents or repeated among the children of one,
\* neither traversal raises ValueError; the stated parent of the frame
\* being processed is still on the stack of open ancestors, so pop_until
\* never empties it; and on any graph a node is found on that stack only
\* when the parent of the frame can be reached from it
C28_NoFalseCycle ==
    /\ (op \in {"depth_first_traversal", "topological_sort"} /\ Acyclic) =>
          /\ raised = "none"
          /\ AtFrame => ~helper_raises(helper)
    /\ AtFrame =>
          /\ TopFrame(helper)[1] \in helper.path.members
          /\ ~pop_until_raises(helper.path, TopFrame(helper)[1])
          /\ push_raises(pop_until(helper.path, TopFrame(helper)[1]), TopFrame(helper)[2]) =>
                /\ TopFrame(helper)[1] # NoParent
                /\ TopFrame(helper)[1] \in Reachable(heap, TopFrame(helper)[2])

\* on an acyclic graph the helper is about to visit again, under another
\* parent, a node it has yielded and that sits on the stack of the branch
\* before, and it will not raise
C28_Witness ==
    /\ AtFrame
    /\ Acyclic
    /\ TopFrame(helper)[2] \in DOMAIN helper.visited
    /\ TopFrame(helper)[2] \in helper.path.members
    /\ ~helper_raises(helper)

----------------------------------------------------------------------------
(* Acyclicity of what the builders make *)

\* no append_arg has been called: every operation so far handed out a node
OnlyBuilders == nops = Len(handles)

\* C29: a graph made by as_partialplus, partial, variable, choice and the
\* operators alone, with no append_arg and no assignment to a keywords
\* mapping, is acyclic: no node reaches itself through its children
C29_BuildersGiveAcyclic ==
    OnlyBuilders => \A r \in Nodes(heap) : ~HasCycle(heap, r)

\* three builder calls made a graph in which an operator node takes a node
\* built before twice or shares it with another node
C29_Witness ==
    /\ OnlyBuilders
    /\ Len(handles) = MaxEvalOps
    /\ given[MaxEvalOps].kind = "operator"
    /\ \E n \in Nodes(heap) :
          \/ ~NoDuplicates(inputs(heap[n]))
          \/ \E m \in Nodes(heap) \ {n} :
                Children(heap, n) \cap Children(heap, m) # {}
    /\ \A r \in Nodes(heap) : ~HasCycle(heap, r)

----------------------------------------------------------------------------
(* Properties of clone *)

\* the nodes the clone was asked to copy, and the copies made of them
Cloned == Reachable(result.before, result.root)
CopiesMatch ==
    /\ DOMAIN result.bindings = Cloned
    /\ \A n \in Cloned :
          /\ result.bindings[n] \notin Nodes(result.before)
          /\ \A m \in Cloned : result.bindings[m] = result.bindings[n] => m = n
          /\ heap[result.bindings[n]].kind = heap[n].kind
          /\ heap[result.bindings[n]].value = heap[n].value
          /\ heap[result.bindings[n]].func = heap[n].func
          /\ heap[result.bindings[n]].args =
                [i \in 1..Len(heap[n].args) |-> result.bindings[heap[n].args[i]]]
          /\ heap[result.bindings[n]].keywords =
                [i \in 1..Len(heap[n].keywords) |->
                    [name |-> heap[n].keywords[i].name,
                     node |-> result.bindings[heap[n].keywords[i].node]]]
    /\ \A n \in Nodes(result.before) : heap[n] = result.before[n]

\* C30: clone() on the root of an acyclic graph returns the root of a graph
\* of fresh nodes isomorphic to the original: one copy for each Literal and
\* Apply reachable from the root, with the same value or function and the
\* copies of its children in the same positions, a shared node copied once,
\* and the original graph unchanged
C30_CloneIsIsomorphic ==
    op = "clone" =>
        /\ raised = "none"
        /\ result.node = result.bindings[result.root]
        /\ CopiesMatch

====
